---- MODULE Spec2Model ----
(***************************************************************************)
(* Storyboard Canvas: the abstract date model, the forward layout          *)
(* (calculateLayout), the inverse layout (getArcFromY), the reconciliation *)
(* engine (calculateSyncChanges) and the canvas manager (buildStoryboard,  *)
(* syncStoryboard) of src/src/layoutEngine.ts and src/src/syncEngine.ts.   *)
(*                                                                         *)
(* Pixel coordinates are integers.  Where the source divides (averages of  *)
(* Y, arcSpacing / 2) the model compares the cross-multiplied integers, so *)
(* every comparison is the exact rational one.                             *)
(***************************************************************************)
EXTENDS Integers, Sequences, FiniteSets, TLC

VARIABLES
  nodes,         \* canvas.nodes: the canvas nodes, in Map insertion order
  edges,         \* canvas.edges: the canvas edges, in insertion order
  frontmatter,   \* metadataCache: note -> its story-date / story-arc
  links,         \* metadataCache.resolvedLinks, as a set of <<from, to>> notes
  layoutConfig,  \* StoryboardCanvasManager.layoutConfig
  layout,        \* the Map returned by the last calculateLayout call
  result,        \* the last operation, its argument and what it returned
  pending,       \* frontmatter writes the metadata cache has not indexed yet
  log,           \* the notices and frontmatter writes of the last command, in order
  hooks          \* registerCanvasHooks: the closure, the patched prototypes, the workspace

vars ==
  <<nodes, edges, frontmatter, links, layoutConfig, layout, result, pending, log, hooks>>

\* ------------------------------------------------------------------ bounds

\* Most scenes of a snapshot handed to the layout functions.
MaxEvents == 3

\* Most segments of a date handed to the comparator.
MaxSegments == 2

\* How many times the model lets one prototype method be wrapped.
MaxWraps == 3

\* ------------------------------------------------------------- small helpers

Max2(a, b) == IF a >= b THEN a ELSE b

Min2(a, b) == IF a <= b THEN a ELSE b

Abs(a) == IF a < 0 THEN 0 - a ELSE a

Range(s) == {s[i] : i \in 1..Len(s)}

\* Array.prototype.indexOf, 1-based; 0 when absent.
IndexOf(s, x) ==
  IF x \in Range(s) THEN CHOOSE i \in 1..Len(s) : s[i] = x /\ \A j \in 1..(i - 1) : s[j] # x
  ELSE 0

\* Map.get on a Map modelled as a function.
Has(m, k) == k \in DOMAIN m

\* Map.set: overwrite or add.
MapSet(m, k, v) == (k :> v) @@ m

\* The array a mapping over 1..n yields (Array.prototype.map, a spread copy).
ArrayOf(f) == <<>> \o f

EmptyMap == <<>>

\* ------------------------------------------------------------ abstract dates

\* a[i] ?? 0 for the 1-based position i.
Seg(a, i) == IF i <= Len(a) THEN a[i] ELSE 0

RECURSIVE compareFrom(_, _, _)
compareFrom(a, b, i) ==
  IF i > Max2(Len(a), Len(b)) THEN 0
  ELSE IF Seg(a, i) # Seg(b, i) THEN Seg(a, i) - Seg(b, i)
  ELSE compareFrom(a, b, i + 1)

\* A comparator that stops at the end of the shorter date instead of reading
\* the missing segments as 0.
RECURSIVE compareShortFrom(_, _, _)
compareShortFrom(a, b, i) ==
  IF i > Min2(Len(a), Len(b)) THEN 0
  ELSE IF a[i] # b[i] THEN a[i] - b[i]
  ELSE compareShortFrom(a, b, i + 1)

compareNoPadding(a, b) == compareShortFrom(a, b, 1)

compareAbstractDates(a, b) == compareFrom(a, b, 1)

\* Multipliers with a year of ten months.
multipliersShortYear == <<1, 30, 300, 365000, 365000000>>

multipliers == <<1, 30, 365, 365000, 365000000>>

RECURSIVE Pow10(_)
Pow10(n) == IF n = 0 THEN 1 ELSE 10 * Pow10(n - 1)

\* multipliers[fromEnd] ?? Math.pow(10, fromEnd + 2), fromEnd counted from 0.
Multiplier(fromEnd) ==
  IF fromEnd + 1 <= Len(multipliers) THEN multipliers[fromEnd + 1] ELSE Pow10(fromEnd + 2)

RECURSIVE ordinalFrom(_, _)
ordinalFrom(date, i) ==
  IF i > Len(date) THEN 0
  ELSE date[i] * Multiplier(Len(date) - i) + ordinalFrom(date, i + 1)

dateToOrdinal(date) == ordinalFrom(date, 1)

\* ------------------------------------------------------------ forward layout

\* Array.prototype.sort is stable: e goes behind every element that does not
\* compare greater than it.
RECURSIVE insertByDate(_, _)
insertByDate(sorted, e) ==
  IF sorted = <<>> THEN <<e>>
  ELSE IF compareAbstractDates(Head(sorted).date, e.date) <= 0
       THEN <<Head(sorted)>> \o insertByDate(Tail(sorted), e)
       ELSE <<e>> \o sorted

RECURSIVE sortByDate(_)
sortByDate(events) ==
  IF events = <<>> THEN <<>>
  ELSE insertByDate(sortByDate(SubSeq(events, 1, Len(events) - 1)), events[Len(events)])

\* Unique arcs in the order of their last scene, latest first.
RECURSIVE arcOrderFromEnd(_)
arcOrderFromEnd(sorted) ==
  IF sorted = <<>> THEN <<>>
  ELSE LET after == arcOrderFromEnd(Tail(sorted))
           arc == Head(sorted).arc
       IN IF arc \in Range(after) THEN after ELSE Append(after, arc)

\* Unique arcs in encounter order.
RECURSIVE arcOrderOf(_)
arcOrderOf(sorted) ==
  IF sorted = <<>> THEN <<>>
  ELSE LET before == arcOrderOf(SubSeq(sorted, 1, Len(sorted) - 1))
           arc == sorted[Len(sorted)].arc
       IN IF arc \in Range(before) THEN before ELSE Append(before, arc)

RECURSIVE minOf(_)
minOf(s) == IF Len(s) = 1 THEN s[1] ELSE Min2(s[1], minOf(Tail(s)))

\* Ordered mode without doubling the gap.
orderedXSingleGap(i, config) == i * (config.nodeWidth + config.nodeGapX)

\* Ordered mode: x = i * (nodeWidth + nodeGapX * 2), i counted from 0.
orderedX(i, config) == i * (config.nodeWidth + config.nodeGapX * 2)

\* Absolute mode without the minimum gap to the previous node of the arc.
absoluteXNoClamp(ordinal, minOrdinal, lastXPerArc, arc, config) ==
  (ordinal - minOrdinal) * config.xScale

\* Absolute mode: the scaled ordinal, raised to lastX + nodeWidth + nodeGapX
\* when the arc already has a node.
absoluteX(ordinal, minOrdinal, lastXPerArc, arc, config) ==
  LET x == (ordinal - minOrdinal) * config.xScale
  IN IF Has(lastXPerArc, arc)
     THEN LET minX == lastXPerArc[arc] + config.nodeWidth + config.nodeGapX
          IN IF x < minX THEN minX ELSE x
     ELSE x

\* The loop of calculateLayout from index i on: st = [result, lastXPerArc].
RECURSIVE layoutLoop(_, _, _, _, _, _)
layoutLoop(sorted, ordinals, arcOrder, config, i, st) ==
  IF i > Len(sorted) THEN st.result
  ELSE
    LET event == sorted[i]
        minOrdinal == minOf(ordinals)
        arcIndex == IndexOf(arcOrder, event.arc) - 1
        x == IF config.layoutMode = "ordered" THEN orderedX(i - 1, config)
             ELSE absoluteX(ordinals[i], minOrdinal, st.lastXPerArc, event.arc, config)
        y == arcIndex * config.arcSpacing
        lastX == IF config.layoutMode = "ordered" THEN st.lastXPerArc
                 ELSE MapSet(st.lastXPerArc, event.arc, x)
    IN layoutLoop(sorted, ordinals, arcOrder, config, i + 1,
                  [result |-> MapSet(st.result, event.nodeId, [x |-> x, y |-> y]),
                   lastXPerArc |-> lastX])

\* The layout of the scenes already sorted by date.
layoutOfSorted(sorted, config) ==
  layoutLoop(sorted, ArrayOf([k \in 1..Len(sorted) |-> dateToOrdinal(sorted[k].date)]),
             arcOrderOf(sorted), config, 1,
             [result |-> EmptyMap, lastXPerArc |-> EmptyMap])

\* A layout that drops the chronologically last scene.
calculateLayoutDropLast(events, config) ==
  IF Len(events) = 0 THEN EmptyMap
  ELSE LET sorted == sortByDate(events)
       IN layoutOfSorted(SubSeq(sorted, 1, Len(sorted) - 1), config)

calculateLayout(events, config) ==
  IF Len(events) = 0 THEN EmptyMap
  ELSE layoutOfSorted(sortByDate(events), config)

\* ------------------------------------------------------------ the canvas

MARKER_PREFIX == "storyboard-marker-"

\* Node and edge ids are <<prefix, kind, n>>: id.startsWith(MARKER_PREFIX) reads
\* the first component.  Ids Obsidian or the user made have the empty prefix.
FileNodeId(i) == <<"", "node", i>>

NoDate == <<>>

\* The file node of note i as the user dropped it on the canvas.
DroppedNode(i) ==
  [id |-> FileNodeId(i), type |-> "file", file |-> i, x |-> 0, y |-> 0, text |-> <<>>]

\* canvas.nodes.get(id): the sequence holding the node, or the empty sequence.
nodesGet(canvasNodes, id) == SelectSeq(canvasNodes, LAMBDA n : n.id = id)

\* canvas.nodes.get(id)?.y ?? 0
liveY(canvasNodes, id) ==
  IF nodesGet(canvasNodes, id) = <<>> THEN 0 ELSE nodesGet(canvasNodes, id)[1].y

\* canvas.nodes.get(id)?.x ?? 0
liveX(canvasNodes, id) ==
  IF nodesGet(canvasNodes, id) = <<>> THEN 0 ELSE nodesGet(canvasNodes, id)[1].x

\* file.basename of note i.
basename(file) == <<"A", "B", "C", "D", "E">>[file]

\* getMetadataKey(metadata, 'story-arc', 'string') ?? 'default': a note's
\* frontmatter is a record that holds the keys the note has.
getArcFromMetadata(note) == IF "arc" \in DOMAIN note THEN note.arc ELSE "default"

\* The story-deps of a note: an entry "name:kind" is the sequence of its parts
\* between the colons, kept when it has two parts and the kind is known.
parseDeps(note) ==
  IF "deps" \in DOMAIN note
  THEN LET kept == SelectSeq(note.deps,
                     LAMBDA parts : Len(parts) = 2 /\ parts[2] \in {"before", "after"})
       IN ArrayOf([k \in 1..Len(kept) |-> [basename |-> kept[k][1], type |-> kept[k][2]]])
  ELSE <<>>

\* The scenes of the canvas: its file nodes whose note has a story-date that
\* parses, in canvas.nodes order.
RECURSIVE extractScenes(_, _)
extractScenes(canvasNodes, fm) ==
  IF canvasNodes = <<>> THEN <<>>
  ELSE LET n == Head(canvasNodes)
           rest == extractScenes(Tail(canvasNodes), fm)
       IN IF n.type # "file" \/ n.file \notin DOMAIN fm THEN rest
          ELSE IF fm[n.file].date = NoDate THEN rest
          ELSE <<[nodeId |-> n.id, file |-> n.file,
                  date |-> fm[n.file].date,
                  arc |-> getArcFromMetadata(fm[n.file]),
                  title |-> IF "title" \in DOMAIN fm[n.file]
                            THEN fm[n.file].title ELSE basename(n.file),
                  deps |-> parseDeps(fm[n.file])]>> \o rest

\* The loop of applySortToData: the positions written into the canvas data.
applyPositions(canvasNodes, positions) ==
  ArrayOf([i \in 1..Len(canvasNodes) |->
     IF Has(positions, canvasNodes[i].id)
     THEN [canvasNodes[i] EXCEPT !.x = positions[canvasNodes[i].id].x,
                                 !.y = positions[canvasNodes[i].id].y]
     ELSE canvasNodes[i]])

applySortToData(canvasNodes, scenes, config) ==
  applyPositions(canvasNodes, calculateLayout(scenes, config))

\* ------------------------------------------------------------ inverse layout

RECURSIVE sumOf(_)
sumOf(s) == IF s = <<>> THEN 0 ELSE Head(s) + sumOf(Tail(s))

\* uniqueArcs: arc -> average Y, in first-encounter order of events.  The
\* average is kept as the pair sum / count.
RECURSIVE uniqueArcsOf(_, _, _)
uniqueArcsOf(events, canvasNodes, i) ==
  IF i = 0 THEN <<>>
  ELSE LET before == uniqueArcsOf(events, canvasNodes, i - 1)
           arc == events[i].arc
           arcEvents == SelectSeq(events, LAMBDA e : e.arc = arc)
           yVals == ArrayOf([k \in 1..Len(arcEvents) |-> liveY(canvasNodes, arcEvents[k].nodeId)])
       IN IF \E k \in 1..Len(before) : before[k].arc = arc THEN before
          ELSE Append(before, [arc |-> arc, sum |-> sumOf(yVals), count |-> Len(yVals)])

\* a.avg <= e.avg, the stable sort's "does not compare greater".
AvgLeq(a, e) == a.sum * e.count <= e.sum * a.count

RECURSIVE insertByAvg(_, _)
insertByAvg(sorted, e) ==
  IF sorted = <<>> THEN <<e>>
  ELSE IF AvgLeq(Head(sorted), e) THEN <<Head(sorted)>> \o insertByAvg(Tail(sorted), e)
       ELSE <<e>> \o sorted

RECURSIVE sortByAvg(_)
sortByAvg(arcs) ==
  IF arcs = <<>> THEN <<>>
  ELSE insertByAvg(sortByAvg(SubSeq(arcs, 1, Len(arcs) - 1)), arcs[Len(arcs)])

\* An inverse that keeps the arcs in the order of the scene list instead of
\* sorting them by their average Y.
getArcFromYUnsorted(y, events, canvasNodes, config) ==
  IF Len(events) = 0 THEN "Main Plot"
  ELSE LET sortedArcs == uniqueArcsOf(events, canvasNodes, Len(events))
           raw == (2 * y + config.arcSpacing) \div (2 * config.arcSpacing)
           targetIndex == IF raw < 0 THEN 0 ELSE raw
       IN IF targetIndex >= Len(sortedArcs) THEN sortedArcs[Len(sortedArcs)].arc
          ELSE sortedArcs[targetIndex + 1].arc

getArcFromY(y, events, canvasNodes, config) ==
  IF Len(events) = 0 THEN "Main Plot"
  ELSE LET sortedArcs == sortByAvg(uniqueArcsOf(events, canvasNodes, Len(events)))
           \* Math.floor((y + arcSpacing / 2) / arcSpacing)
           raw == (2 * y + config.arcSpacing) \div (2 * config.arcSpacing)
           targetIndex == IF raw < 0 THEN 0 ELSE raw
       IN IF targetIndex >= Len(sortedArcs) THEN sortedArcs[Len(sortedArcs)].arc
          ELSE sortedArcs[targetIndex + 1].arc

\* ------------------------------------------------------------ reconciliation

NoArc == ""

\* arcCentroids: arc -> average live Y of its scenes that have a node, in
\* first-encounter order of scenes; the average is kept as sum / count.
RECURSIVE arcCentroidsOf(_, _, _)
arcCentroidsOf(canvasNodes, scenes, i) ==
  IF i = 0 THEN <<>>
  ELSE LET before == arcCentroidsOf(canvasNodes, scenes, i - 1)
           scene == scenes[i]
           members == SelectSeq(scenes, LAMBDA e :
                        e.arc = scene.arc /\ nodesGet(canvasNodes, e.nodeId) # <<>>)
           yVals == ArrayOf([k \in 1..Len(members) |-> liveY(canvasNodes, members[k].nodeId)])
       IN IF nodesGet(canvasNodes, scene.nodeId) = <<>> THEN before
          ELSE IF \E k \in 1..Len(before) : before[k].arc = scene.arc THEN before
          ELSE Append(before, [arc |-> scene.arc, sum |-> sumOf(yVals), count |-> Len(yVals)])

\* A loop that takes the first centroid without comparing distances.
closestArcFirst(centroids, y, i, best) ==
  IF centroids = <<>> THEN best
  ELSE [arc |-> centroids[1].arc, num |-> Abs(centroids[1].count * y - centroids[1].sum),
        den |-> centroids[1].count, found |-> TRUE]

\* The loop over arcCentroids: best = [arc, num, den, found], the closest arc so
\* far and its distance num / den (found = FALSE stands for Infinity).
RECURSIVE closestArcLoop(_, _, _, _)
closestArcLoop(centroids, y, i, best) ==
  IF i > Len(centroids) THEN best
  ELSE LET c == centroids[i]
           num == Abs(c.count * y - c.sum)
           closer == ~best.found \/ num * best.den < best.num * c.count
       IN closestArcLoop(centroids, y, i + 1,
            IF closer THEN [arc |-> c.arc, num |-> num, den |-> c.count, found |-> TRUE]
            ELSE best)

RECURSIVE insertByX(_, _)
insertByX(sorted, n) ==
  IF sorted = <<>> THEN <<n>>
  ELSE IF Head(sorted).x <= n.x THEN <<Head(sorted)>> \o insertByX(Tail(sorted), n)
       ELSE <<n>> \o sorted

RECURSIVE sortByX(_)
sortByX(ns) ==
  IF ns = <<>> THEN <<>>
  ELSE insertByX(sortByX(SubSeq(ns, 1, Len(ns) - 1)), ns[Len(ns)])

\* visualSequence: the ids of the file nodes of the canvas, left to right.
visualSequenceOf(canvasNodes) ==
  LET fileNodes == sortByX(SelectSeq(canvasNodes, LAMBDA n : n.type = "file"))
  IN ArrayOf([i \in 1..Len(fileNodes) |-> fileNodes[i].id])

\* scenes.find(s => s.nodeId === id): a sequence of at most one scene.
findScene(scenes, id) ==
  LET found == SelectSeq(scenes, LAMBDA e : e.nodeId = id)
  IN IF found = <<>> THEN <<>> ELSE <<found[1]>>

\* A synthesis that takes the midpoint or the neighbour's segment as it is.
synthesizeDateMidpoint(scene, prevScene, nextScene) ==
  LET lastIdx == Len(scene.date)
      last == IF prevScene # <<>> /\ nextScene # <<>>
              THEN (prevScene[1].date[lastIdx] + nextScene[1].date[lastIdx]) \div 2
              ELSE IF prevScene # <<>> THEN prevScene[1].date[lastIdx]
              ELSE nextScene[1].date[lastIdx]
  IN [scene.date EXCEPT ![lastIdx] = last]

\* The new date of a violated scene: its own date with the last segment
\* taken from the neighbours.
synthesizeDate(scene, prevScene, nextScene) ==
  LET lastIdx == Len(scene.date)
      p == prevScene[1].date[lastIdx]
      n == nextScene[1].date[lastIdx]
      mid == (p + n) \div 2
      last == IF prevScene # <<>> /\ nextScene # <<>>
              THEN (IF mid <= p THEN p + 1 ELSE mid)
              ELSE IF prevScene # <<>> THEN p + 1
              ELSE n - 1
  IN [scene.date EXCEPT ![lastIdx] = last]

\* The body of the loop over scenes: the change of one scene, if any.
changeOf(arcCentroids, visualSequence, canvasNodes, scenes, config, scene) ==
  LET y == liveY(canvasNodes, scene.nodeId)
      best == closestArcLoop(arcCentroids, y, 1,
                [arc |-> scene.arc, num |-> 0, den |-> 1, found |-> FALSE])
      \* closestArc !== scene.arc && minDistance < arcSpacing / 2
      newArc == IF best.found /\ best.arc # scene.arc /\ 2 * best.num < config.arcSpacing * best.den
                THEN best.arc ELSE NoArc
      idx == IndexOf(visualSequence, scene.nodeId)
      prevScene == IF idx - 1 >= 1 THEN findScene(scenes, visualSequence[idx - 1]) ELSE <<>>
      nextScene == IF idx + 1 <= Len(visualSequence)
                   THEN findScene(scenes, visualSequence[idx + 1]) ELSE <<>>
      needsNewDate ==
        \/ prevScene # <<>> /\ compareAbstractDates(scene.date, prevScene[1].date) <= 0
        \/ nextScene # <<>> /\ compareAbstractDates(scene.date, nextScene[1].date) >= 0
      newDate == IF needsNewDate THEN synthesizeDate(scene, prevScene, nextScene) ELSE NoDate
  IN IF newArc # NoArc \/ needsNewDate
     THEN <<[nodeId |-> scene.nodeId, file |-> scene.file, newArc |-> newArc, newDate |-> newDate]>>
     ELSE <<>>

RECURSIVE syncLoop(_, _, _, _, _, _)
syncLoop(arcCentroids, visualSequence, canvasNodes, scenes, config, i) ==
  IF i > Len(scenes) THEN <<>>
  ELSE (IF nodesGet(canvasNodes, scenes[i].nodeId) = <<>> THEN <<>>
        ELSE changeOf(arcCentroids, visualSequence, canvasNodes, scenes, config, scenes[i]))
       \o syncLoop(arcCentroids, visualSequence, canvasNodes, scenes, config, i + 1)

calculateSyncChanges(canvasNodes, scenes, config) ==
  syncLoop(arcCentroidsOf(canvasNodes, scenes, Len(scenes)), visualSequenceOf(canvasNodes),
           canvasNodes, scenes, config, 1)

\* ------------------------------------------------------------ inverse layout: date

\* d[d.length - 1] = (d[d.length - 1] ?? 0) + 1 on a copy of the date.
incrementLast(date) ==
  IF Len(date) = 0 THEN date ELSE [date EXCEPT ![Len(date)] = @ + 1]

\* d[d.length - 1] = Math.max(1, (d[d.length - 1] ?? 2) - 1) on a copy.
decrementLast(date) ==
  IF Len(date) = 0 THEN date ELSE [date EXCEPT ![Len(date)] = Max2(1, @ - 1)]

\* A date that lies half-way between the two neighbours when both exist.
dateBetweenMidpoint(before, after) ==
  IF before # <<>> /\ after # <<>>
  THEN [before[1].date EXCEPT ![Len(before[1].date)] =
          (@ + after[1].date[Len(after[1].date)]) \div 2]
  ELSE IF before # <<>> THEN incrementLast(before[1].date)
  ELSE IF after # <<>> THEN decrementLast(after[1].date)
  ELSE <<2000, 1, 1>>

\* The three returns of the absolute branch and the fallback: before and after
\* are sequences of at most one scene.
dateBetween(before, after) ==
  IF before # <<>> /\ after # <<>> THEN incrementLast(before[1].date)
  ELSE IF before # <<>> THEN incrementLast(before[1].date)
  ELSE IF after # <<>> THEN decrementLast(after[1].date)
  ELSE <<2000, 1, 1>>

\* getDateFromX(x, events, canvas, config); today is what new Date() gives.
\* ordinal <= x / xScale + minOrdinal is compared as (ordinal - minOrdinal) *
\* xScale <= x, xScale being positive.  With a slot width of 0 the target
\* index is x / 0: Infinity, -Infinity, or NaN, for which before is undefined
\* and reading its date throws (NoDate).
getDateFromX(x, events, canvasNodes, config, today) ==
  IF Len(events) = 0 THEN today
  ELSE IF config.layoutMode = "absolute"
  THEN LET minOrdinal == minOf(ArrayOf([k \in 1..Len(events) |-> dateToOrdinal(events[k].date)]))
           sortedEvents == sortByDate(events)
           beforeEvents == SelectSeq(sortedEvents, LAMBDA e :
                             (dateToOrdinal(e.date) - minOrdinal) * config.xScale <= x)
           afterEvents == SelectSeq(sortedEvents, LAMBDA e :
                            (dateToOrdinal(e.date) - minOrdinal) * config.xScale > x)
       IN dateBetween(IF beforeEvents = <<>> THEN <<>> ELSE <<beforeEvents[Len(beforeEvents)]>>,
                      IF afterEvents = <<>> THEN <<>> ELSE <<afterEvents[1]>>)
  ELSE LET physicalNodes ==
             sortByX(ArrayOf([k \in 1..Len(events) |->
               [date |-> events[k].date, x |-> liveX(canvasNodes, events[k].nodeId)]]))
           slotWidth == config.nodeWidth + config.nodeGapX * 2
           first == decrementLast(physicalNodes[1].date)
           last == incrementLast(physicalNodes[Len(physicalNodes)].date)
       IN IF slotWidth = 0
          THEN (IF x < 0 THEN first ELSE IF x > 0 THEN last ELSE NoDate)
          ELSE LET targetIndex == (2 * x + slotWidth) \div (2 * slotWidth)
               IN IF targetIndex <= 0 THEN first
                  ELSE IF targetIndex >= Len(physicalNodes) THEN last
                  ELSE incrementLast(physicalNodes[targetIndex].date)

\* ------------------------------------------------------------ date formatter

\* formatAbstractDate under the default settings, as the fields it prints: the
\* year keeps its sign, month and day are printed without one (hideSign).
formatAbstractDate(date) ==
  ArrayOf([i \in 1..Len(date) |-> IF i = 1 THEN date[i] ELSE Abs(date[i])])

\* calculateDateInterval: the label of a chronological edge.  The parts that
\* are not positive are left out of the label, here 0.
calculateDateInterval(dateA, dateB) ==
  IF Len(dateA) < 3 \/ Len(dateB) < 3 THEN <<"Later">>
  ELSE
    LET rawD == dateB[3] - dateA[3]
        rawM == dateB[2] - dateA[2]
        diffD == IF rawD < 0 THEN rawD + 30 ELSE rawD
        borrowedM == IF rawD < 0 THEN rawM - 1 ELSE rawM
        diffM == IF borrowedM < 0 THEN borrowedM + 12 ELSE borrowedM
        diffY == IF borrowedM < 0 THEN dateB[1] - dateA[1] - 1 ELSE dateB[1] - dateA[1]
    IN IF diffY = 0 /\ diffM = 0 /\ diffD = 0 THEN <<"Same time">>
       ELSE <<Max2(diffY, 0), Max2(diffM, 0), Max2(diffD, 0), "later">>

\* ------------------------------------------------------------ generated edges

NoLabel == <<>>

\* id.startsWith(MARKER_PREFIX + kind)
IsGenerated(id, kind) == id[1] = MARKER_PREFIX /\ id[2] = kind

\* The random part of the id of the k-th edge a run generates, before the run
\* has drawn it.
Drawn(k) == <<0, k>>

\* randomId() of a run with seed r, for each edge the run generated: the k-th
\* gets the suffix <<r, k>>.
randomId(canvasEdges, r) ==
  ArrayOf([k \in 1..Len(canvasEdges) |->
     IF canvasEdges[k].id[1] = MARKER_PREFIX /\ canvasEdges[k].id[3][1] = 0
     THEN [canvasEdges[k] EXCEPT !.id = <<canvasEdges[k].id[1], canvasEdges[k].id[2],
                                          <<r, canvasEdges[k].id[3][2]>>>>]
     ELSE canvasEdges[k]])

\* The edges of one arc group, already sorted by date, appended to canvasEdges.
RECURSIVE chronoEdgesOfGroup(_, _, _)
chronoEdgesOfGroup(group, canvasEdges, i) ==
  IF i > Len(group) - 1 THEN canvasEdges
  ELSE
    LET from == group[i]
        to == group[i + 1]
        existsUser == \E k \in 1..Len(canvasEdges) :
                        /\ canvasEdges[k].fromNode = from.nodeId
                        /\ canvasEdges[k].toNode = to.nodeId
                        /\ canvasEdges[k].id[1] # MARKER_PREFIX
        edge == [id |-> <<MARKER_PREFIX, "edge-chrono-", Drawn(Len(canvasEdges) + 1)>>,
                 fromNode |-> from.nodeId, toNode |-> to.nodeId,
                 fromSide |-> "right", toSide |-> "left",
                 label |-> calculateDateInterval(from.date, to.date)]
    IN chronoEdgesOfGroup(group, IF existsUser THEN canvasEdges ELSE Append(canvasEdges, edge),
                          i + 1)

\* The loop over the arc groups, in the order the arcs first appear in scenes.
RECURSIVE chronoEdgesLoop(_, _, _, _)
chronoEdgesLoop(arcs, scenes, canvasEdges, g) ==
  IF g > Len(arcs) THEN canvasEdges
  ELSE chronoEdgesLoop(arcs, scenes,
         chronoEdgesOfGroup(sortByDate(SelectSeq(scenes, LAMBDA e : e.arc = arcs[g])),
                            canvasEdges, 1),
         g + 1)

applyChronologicalEdgesToData(canvasEdges, scenes) ==
  chronoEdgesLoop(arcOrderOf(scenes), scenes,
                  SelectSeq(canvasEdges, LAMBDA e : ~IsGenerated(e.id, "edge-chrono-")), 1)

\* The files a note links to that resolvedLinks lists, in ascending order.
RECURSIVE targetsOf(_, _, _)
targetsOf(resolvedLinks, source, t) ==
  IF t > MaxEvents + 1 THEN <<>>
  ELSE (IF <<source, t>> \in resolvedLinks THEN <<t>> ELSE <<>>)
       \o targetsOf(resolvedLinks, source, t + 1)

\* pathToNodeId.get(path): the id of the file node of the path, or none.
pathToNodeId(canvasNodes, path) ==
  SelectSeq(canvasNodes, LAMBDA n : n.type = "file" /\ n.file = path)

\* The inner loop of applyCrossLinksToData: the links of one source node.
RECURSIVE crossLinksOfSource(_, _, _, _, _)
crossLinksOfSource(canvasNodes, source, targets, canvasEdges, j) ==
  IF j > Len(targets) THEN canvasEdges
  ELSE
    LET target == pathToNodeId(canvasNodes, targets[j])
        skip == \/ target = <<>>
                \/ target[1].id = source.id
                \/ \E k \in 1..Len(canvasEdges) :
                     canvasEdges[k].fromNode = source.id /\ canvasEdges[k].toNode = target[1].id
        edge == [id |-> <<MARKER_PREFIX, "edge-link-", Drawn(Len(canvasEdges) + 1)>>,
                 fromNode |-> source.id, toNode |-> target[1].id,
                 fromSide |-> "bottom", toSide |-> "top", label |-> NoLabel]
    IN crossLinksOfSource(canvasNodes, source, targets,
                          IF skip THEN canvasEdges ELSE Append(canvasEdges, edge), j + 1)

RECURSIVE crossLinksLoop(_, _, _, _)
crossLinksLoop(canvasNodes, resolvedLinks, canvasEdges, i) ==
  IF i > Len(canvasNodes) THEN canvasEdges
  ELSE crossLinksLoop(canvasNodes, resolvedLinks,
         IF canvasNodes[i].type = "file"
         THEN crossLinksOfSource(canvasNodes, canvasNodes[i],
                                 targetsOf(resolvedLinks, canvasNodes[i].file, 1),
                                 canvasEdges, 1)
         ELSE canvasEdges,
         i + 1)

applyCrossLinksToData(canvasNodes, canvasEdges, resolvedLinks) ==
  crossLinksLoop(canvasNodes, resolvedLinks,
                 SelectSeq(canvasEdges, LAMBDA e : ~IsGenerated(e.id, "edge-link-")), 1)

\* ------------------------------------------------------------ visual markers

labelWidth == 200

labelHeight == 60

nodeLabelHeight == 40

TextNode(id, text, x, y) ==
  [id |-> id, type |-> "text", file |-> 0, x |-> x, y |-> y, text |-> text]

\* arcYPositions: <<arc, y>> of the first scene of each arc, in scene order.
RECURSIVE arcYPositionsOf(_, _, _)
arcYPositionsOf(canvasNodes, scenes, i) ==
  IF i = 0 THEN <<>>
  ELSE LET acc == arcYPositionsOf(canvasNodes, scenes, i - 1)
           scene == scenes[i]
       IN IF nodesGet(canvasNodes, scene.nodeId) = <<>> THEN acc
          ELSE IF \E k \in 1..Len(acc) : acc[k][1] = scene.arc THEN acc
          ELSE Append(acc, <<scene.arc, liveY(canvasNodes, scene.nodeId)>>)

\* dateXPositions: <<dateLabel, x>> of the first scene of each date label.
RECURSIVE dateXPositionsOf(_, _, _)
dateXPositionsOf(canvasNodes, scenes, i) ==
  IF i = 0 THEN <<>>
  ELSE LET acc == dateXPositionsOf(canvasNodes, scenes, i - 1)
           scene == scenes[i]
           dateLabel == formatAbstractDate(scene.date)
       IN IF nodesGet(canvasNodes, scene.nodeId) = <<>> THEN acc
          ELSE IF \E k \in 1..Len(acc) : acc[k][1] = dateLabel THEN acc
          ELSE Append(acc, <<dateLabel, liveX(canvasNodes, scene.nodeId)>>)

\* The per-node date labels, one above each scene's node.
nodeLabelsOf(canvasNodes, scenes, config) ==
  LET placed == SelectSeq(scenes, LAMBDA e : nodesGet(canvasNodes, e.nodeId) # <<>>)
  IN ArrayOf([i \in 1..Len(placed) |->
        TextNode(<<MARKER_PREFIX, "nodelabel-", placed[i].nodeId>>,
                 formatAbstractDate(placed[i].date),
                 liveX(canvasNodes, placed[i].nodeId),
                 liveY(canvasNodes, placed[i].nodeId) - nodeLabelHeight - 10)])

addVisualMarkersToData(canvasNodes, scenes, config) ==
  LET arcYPositions == arcYPositionsOf(canvasNodes, scenes, Len(scenes))
      dateXPositions == dateXPositionsOf(canvasNodes, scenes, Len(scenes))
      headerY == IF Len(arcYPositions) > 0
                 THEN minOf(ArrayOf([k \in 1..Len(arcYPositions) |-> arcYPositions[k][2]]))
                      - labelHeight - 80
                 ELSE 0
      minX == IF Len(dateXPositions) > 0
              THEN minOf(ArrayOf([k \in 1..Len(dateXPositions) |-> dateXPositions[k][2]]))
              ELSE 0
      labelX == minX - labelWidth - 60
      arcLabels == ArrayOf([k \in 1..Len(arcYPositions) |->
                      TextNode(<<MARKER_PREFIX, "arc-", k - 1>>,
                               <<"## ", arcYPositions[k][1]>>,
                               labelX,
                               arcYPositions[k][2] + (config.nodeHeight \div 2)
                                 - (labelHeight \div 2))])
      dateMarkers == ArrayOf([k \in 1..Len(dateXPositions) |->
                        TextNode(<<MARKER_PREFIX, "date-", k - 1>>,
                                 <<"**", dateXPositions[k][1], "**">>,
                                 dateXPositions[k][2] + (config.nodeWidth \div 2)
                                   - (labelWidth \div 2),
                                 headerY)])
  IN canvasNodes \o arcLabels \o dateMarkers \o nodeLabelsOf(canvasNodes, scenes, config)

\* ------------------------------------------------------------ buildStoryboard

\* A variant of step 1 that leaves every node on the canvas.
removeNothing(canvasNodes) == canvasNodes

\* Step 1 of buildStoryboard: every node that is not a file node is removed.
removeNonFileNodes(canvasNodes) == SelectSeq(canvasNodes, LAMBDA n : n.type = "file")

\* buildStoryboard on a canvas, with the metadata fm: the canvas it commits
\* but for the random ids, or the canvas as it was when there is no scene.
buildStoryboard(canvasNodes, canvasEdges, fm, resolvedLinks, config) ==
  LET scenes == extractScenes(canvasNodes, fm)
      positions == calculateLayout(scenes, config)
      sortedNodes == applyPositions(removeNonFileNodes(canvasNodes), positions)
      \* step 2: every edge is removed from the canvas
      chrono == applyChronologicalEdgesToData(<<>>, scenes)
      linked == applyCrossLinksToData(sortedNodes, chrono, resolvedLinks)
  IN IF Len(scenes) = 0
     THEN [built |-> FALSE, nodes |-> canvasNodes, edges |-> canvasEdges, positions |-> EmptyMap]
     ELSE [built |-> TRUE,
           nodes |-> addVisualMarkersToData(sortedNodes, scenes, config),
           edges |-> linked,
           positions |-> positions]

\* ------------------------------------------------------------ constraint window

\* earliestPossible / latestPossible = null.
NoBound == <<>>

\* The window before any constraint: no bound, the sources '-inf' and '+inf'.
OpenWindow ==
  [earliestPossible |-> NoBound, earliestSource |-> <<"-inf">>,
   latestPossible |-> NoBound, latestSource |-> <<"+inf">>]

\* 1. Arc constraints: the neighbours of the node among the scenes of
\* currentArc sorted by date.  currentArc is the raw story-arc of the note, the
\* empty string when the note has none.
arcConstraints(nodeId, currentArc, scenes) ==
  IF currentArc = "" THEN OpenWindow
  ELSE
    LET arcScenes == sortByDate(SelectSeq(scenes, LAMBDA sc : sc.arc = currentArc))
        found == {k \in 1..Len(arcScenes) : arcScenes[k].nodeId = nodeId}
    IN IF found = {} THEN OpenWindow
       ELSE LET myIndex == CHOOSE k \in found : \A m \in found : k <= m
                hasPrev == myIndex > 1
                hasNext == myIndex < Len(arcScenes)
            IN [earliestPossible |-> IF hasPrev THEN arcScenes[myIndex - 1].date ELSE NoBound,
                earliestSource |-> IF hasPrev THEN <<arcScenes[myIndex - 1].title, "Arc">>
                                   ELSE <<"-inf">>,
                latestPossible |-> IF hasNext THEN arcScenes[myIndex + 1].date ELSE NoBound,
                latestSource |-> IF hasNext THEN <<arcScenes[myIndex + 1].title, "Arc">>
                                 ELSE <<"+inf">>]

\* A resolution of the target by the title of the scene.
findTargetByTitle(scenes, dep) == SelectSeq(scenes, LAMBDA sc : sc.title = dep.basename)

\* scenes.find(s => s.file.basename === dep.basename): the matching scenes, the
\* first of which is the target; empty when find returns undefined.
findTarget(scenes, dep) == SelectSeq(scenes, LAMBDA sc : basename(sc.file) = dep.basename)

\* One dependency that overwrites the bound without comparing.
applyDepNoCompare(w, dep, targetScene) ==
  IF dep.type = "after"
  THEN [w EXCEPT !.earliestPossible = targetScene.date,
                 !.earliestSource = <<targetScene.title, "Dep">>]
  ELSE [w EXCEPT !.latestPossible = targetScene.date,
                 !.latestSource = <<targetScene.title, "Dep">>]

\* One resolved dependency: 'after' makes the target an earliest boundary,
\* 'before' a latest boundary, when it is tighter than the bound so far.
applyDep(w, dep, targetScene) ==
  IF dep.type = "after"
  THEN IF \/ w.earliestPossible = NoBound
          \/ compareAbstractDates(targetScene.date, w.earliestPossible) > 0
       THEN [w EXCEPT !.earliestPossible = targetScene.date,
                      !.earliestSource = <<targetScene.title, "Dep">>]
       ELSE w
  ELSE IF \/ w.latestPossible = NoBound
          \/ compareAbstractDates(targetScene.date, w.latestPossible) < 0
       THEN [w EXCEPT !.latestPossible = targetScene.date,
                      !.latestSource = <<targetScene.title, "Dep">>]
       ELSE w

\* A loop over the dependencies that ends at the first target it cannot find.
RECURSIVE depLoopBreak(_, _, _, _)
depLoopBreak(currentDeps, scenes, i, w) ==
  IF i > Len(currentDeps) THEN w
  ELSE LET found == findTarget(scenes, currentDeps[i])
       IN IF found = <<>> THEN w
          ELSE depLoopBreak(currentDeps, scenes, i + 1, applyDep(w, currentDeps[i], found[1]))

\* 2. Dependency constraints: the loop over currentDeps from index i on.
RECURSIVE depLoop(_, _, _, _)
depLoop(currentDeps, scenes, i, w) ==
  IF i > Len(currentDeps) THEN w
  ELSE LET found == findTarget(scenes, currentDeps[i])
       IN IF found = <<>> THEN depLoop(currentDeps, scenes, i + 1, w)
          ELSE depLoop(currentDeps, scenes, i + 1, applyDep(w, currentDeps[i], found[1]))

\* The unified constraint window of renderInspector for a node.
constraintWindow(nodeId, currentArc, currentDeps, scenes) ==
  depLoop(currentDeps, scenes, 1, arcConstraints(nodeId, currentArc, scenes))

\* ------------------------------------------------------------ inputs

\* Story dates of the notes: [year, month, day] as the default parser regex
\* yields them: those of the layout example.
Dates == {<<2024, 1, 1>>, <<2024, 3, 1>>, <<2024, 6, 1>>}

Arcs == {"Main", "Side"}

DEFAULT_LAYOUT_CONFIG ==
  [layoutMode |-> "absolute", xScale |-> 10, arcSpacing |-> 500,
   nodeWidth |-> 400, nodeHeight |-> 300, nodeGapX |-> 50]

\* The configuration of the layout example: the default with xScale = 1.
ExampleConfig == [DEFAULT_LAYOUT_CONFIG EXCEPT !.xScale = 1]

\* Configurations within the LayoutConfig invariant (arcSpacing > 0, xScale > 0,
\* nodeWidth >= 0), with a gap that is not negative.
Configs ==
  {DEFAULT_LAYOUT_CONFIG,
   ExampleConfig,
   [DEFAULT_LAYOUT_CONFIG EXCEPT !.layoutMode = "ordered"],
   [DEFAULT_LAYOUT_CONFIG EXCEPT !.layoutMode = "ordered", !.nodeWidth = 0, !.nodeGapX = 0]}

Scenes == extractScenes(nodes, frontmatter)

NoLayout == [computed |-> FALSE, map |-> EmptyMap]

NoResult == [op |-> "none", arg |-> 0, val |-> 0]

\* The plugin before registerCanvasHooks has run.
NoHooks == [registered |-> FALSE]

\* Y coordinates handed to getArcFromY: the lanes of a layout and some others.
QueryYs == {-300, 0, 250, 500, 1000}

\* X coordinates handed to getDateFromX: left of the first scene, on a scene,
\* between scenes, right of the last one.
QueryXs == {-100, 0, 100, 600, 2000}

\* What new Date() may give.
Todays == {<<2024, 6, 15>>, <<2026, 11, 4>>}

\* ------------------------------------------------------------ Spec: layout

Init ==
  \E k \in 0..MaxEvents :
    \E fm \in [1..k -> [date : Dates, arc : Arcs]] :
      \E config \in Configs :
        /\ nodes = [i \in 1..k |-> DroppedNode(i)]
        /\ edges = <<>>
        /\ frontmatter = fm
        /\ links = {}
        /\ layoutConfig = config
        /\ layout = NoLayout
        /\ result = NoResult
        /\ pending = <<>>
        /\ log = <<>>
        /\ hooks = NoHooks

\* calculateSyncChanges(app, canvas, scenes, layoutConfig, dateSettings) on the
\* current snapshot; a query like the two above.
CalculateSyncChanges ==
  /\ result.op \notin {"getArcFromY", "getDateFromX", "calculateSyncChanges"}
  /\ result' = [op |-> "calculateSyncChanges", arg |-> 0,
                val |-> calculateSyncChanges(nodes, Scenes, layoutConfig)]
  /\ UNCHANGED <<nodes, edges, frontmatter, links, hooks, layoutConfig, layout, pending, log>>

\* A calculateLayout that writes the positions it computes into the nodes.
CalculateLayoutInPlace ==
  /\ layout' = [computed |-> TRUE, map |-> calculateLayout(Scenes, layoutConfig)]
  /\ nodes' = applyPositions(nodes, layout'.map)
  /\ result' = [op |-> "calculateLayout", arg |-> 0, val |-> layout'.map]
  /\ UNCHANGED <<edges, frontmatter, links, hooks, layoutConfig, pending, log>>

\* calculateLayout(scenes, config) on the current snapshot.
CalculateLayout ==
  /\ layout' = [computed |-> TRUE, map |-> calculateLayout(Scenes, layoutConfig)]
  /\ result' = [op |-> "calculateLayout", arg |-> 0, val |-> layout'.map]
  /\ UNCHANGED <<nodes, edges, frontmatter, links, hooks, layoutConfig, pending, log>>

\* sortStoryboard: lay the scenes out and move their nodes.
SortStoryboard ==
  /\ Len(Scenes) > 0
  /\ nodes' = applySortToData(nodes, Scenes, layoutConfig)
  /\ layout' = [computed |-> TRUE, map |-> calculateLayout(Scenes, layoutConfig)]
  /\ result' = [op |-> "sortStoryboard", arg |-> 0, val |-> 0]
  /\ UNCHANGED <<edges, frontmatter, links, hooks, layoutConfig, pending, log>>

\* getArcFromY(y, scenes, canvas, config) on the current snapshot.  A query
\* changes nothing but the recorded result, so a query that follows a query
\* reaches no state the first one does not.
GetArcFromY ==
  \E y \in QueryYs :
    /\ result.op \notin {"getArcFromY", "getDateFromX", "calculateSyncChanges"}
    /\ result' = [op |-> "getArcFromY", arg |-> y,
                  val |-> getArcFromY(y, Scenes, nodes, layoutConfig)]
    /\ UNCHANGED <<nodes, edges, frontmatter, links, hooks, layoutConfig, layout, pending, log>>

\* getDateFromX(x, scenes, canvas, config) on the current snapshot; like
\* getArcFromY a query that changes nothing but the recorded result.
GetDateFromX ==
  \E x \in QueryXs, today \in Todays :
    /\ result.op \notin {"getArcFromY", "getDateFromX", "calculateSyncChanges"}
    /\ result' = [op |-> "getDateFromX", arg |-> x,
                  val |-> getDateFromX(x, Scenes, nodes, layoutConfig, today)]
    /\ UNCHANGED <<nodes, edges, frontmatter, links, hooks, layoutConfig, layout, pending, log>>

Next ==
  CalculateLayout \/ SortStoryboard \/ GetArcFromY \/ GetDateFromX \/ CalculateSyncChanges

Spec == Init /\ [][Next]_vars

\* ------------------------------------------------------------ SpecDates

SegValues == {-1, 0, 1}

\* Dates of every length up to MaxSegments.
DateInputs == UNION {[1..n -> SegValues] : n \in 0..MaxSegments}

\* The three dates to compare are drawn at the start.
InitDates ==
  \E a \in DateInputs, b \in DateInputs, c \in DateInputs :
    /\ nodes = <<>>
    /\ edges = <<>>
    /\ frontmatter = <<>>
    /\ links = {}
    /\ layoutConfig = DEFAULT_LAYOUT_CONFIG
    /\ layout = NoLayout
    /\ result = [op |-> "input", arg |-> [a |-> a, b |-> b, c |-> c], val |-> 0]
    /\ pending = <<>>
    /\ log = <<>>
    /\ hooks = NoHooks

\* compareAbstractDates on the pairs of the three dates.
CompareDates ==
  /\ result.op = "input"
  /\ LET a == result.arg.a
         b == result.arg.b
         c == result.arg.c
     IN result' = [op |-> "compareAbstractDates",
                   arg |-> result.arg,
                   val |-> [aa |-> compareAbstractDates(a, a),
                            ab |-> compareAbstractDates(a, b),
                            ba |-> compareAbstractDates(b, a),
                            bc |-> compareAbstractDates(b, c),
                            ac |-> compareAbstractDates(a, c)]]
  /\ UNCHANGED <<nodes, edges, frontmatter, links, hooks, layoutConfig, layout, pending, log>>

NextDates == CompareDates

SpecDates == InitDates /\ [][NextDates]_vars

\* ------------------------------------------------------------ claims: layout

Sign(n) == IF n < 0 THEN -1 ELSE IF n > 0 THEN 1 ELSE 0

\* The position calculateLayout gave a scene.
LayoutPos(e) == layout.map[e.nodeId]

\* Every scene's node is where the last computed layout put it.
NodesHoldLayout ==
  /\ layout.computed
  /\ \A i \in 1..Len(Scenes) :
       /\ Has(layout.map, Scenes[i].nodeId)
       /\ liveX(nodes, Scenes[i].nodeId) = LayoutPos(Scenes[i]).x
       /\ liveY(nodes, Scenes[i].nodeId) = LayoutPos(Scenes[i]).y

MinGap == layoutConfig.nodeWidth + layoutConfig.nodeGapX

\* C4: in Absolute mode two scenes of one arc with dates d1 < d2 are laid out
\* with X2 >= X1 + nodeWidth + nodeGapX, adjacent in the lane or not, also when
\* the scaled ordinal difference is smaller.
AbsoluteKeepsGap ==
  (layout.computed /\ layoutConfig.layoutMode = "absolute") =>
    \A i \in 1..Len(Scenes), j \in 1..Len(Scenes) :
      (/\ Scenes[i].arc = Scenes[j].arc
       /\ compareAbstractDates(Scenes[i].date, Scenes[j].date) < 0)
      => LayoutPos(Scenes[j]).x >= LayoutPos(Scenes[i]).x + MinGap

\* Three scenes of one arc, strictly increasing dates, the outer two closer in
\* scaled ordinal than the gap: the first and the last are not adjacent.
AbsoluteKeepsGapWitness ==
  /\ layout.computed
  /\ layoutConfig.layoutMode = "absolute"
  /\ \E i \in 1..Len(Scenes), j \in 1..Len(Scenes), k \in 1..Len(Scenes) :
       /\ Scenes[i].arc = Scenes[j].arc /\ Scenes[j].arc = Scenes[k].arc
       /\ compareAbstractDates(Scenes[i].date, Scenes[j].date) < 0
       /\ compareAbstractDates(Scenes[j].date, Scenes[k].date) < 0
       /\ (dateToOrdinal(Scenes[k].date) - dateToOrdinal(Scenes[i].date)) * layoutConfig.xScale
            < MinGap
       /\ LayoutPos(Scenes[k]).x >= LayoutPos(Scenes[i]).x + 2 * MinGap

\* The layout example: A, B, C in this order with the example configuration.
LayoutExample ==
  /\ layoutConfig = ExampleConfig
  /\ Len(Scenes) = 3
  /\ Scenes[1].date = <<2024, 1, 1>> /\ Scenes[1].arc = "Main"
  /\ Scenes[2].date = <<2024, 6, 1>> /\ Scenes[2].arc = "Main"
  /\ Scenes[3].date = <<2024, 3, 1>> /\ Scenes[3].arc = "Side"
  /\ layout.computed

\* C5 as stated: Main is lane 0, Side lane 1, A at X = 0, B at
\* X = (ordinal(B) - ordinal(A)) * 1, C at Y = 500.
LayoutExampleAsStated ==
  LayoutExample =>
    /\ LayoutPos(Scenes[1]).y = 0 /\ LayoutPos(Scenes[2]).y = 0
    /\ LayoutPos(Scenes[3]).y = 500
    /\ LayoutPos(Scenes[1]).x = 0
    /\ LayoutPos(Scenes[2]).x
         = (dateToOrdinal(Scenes[2].date) - dateToOrdinal(Scenes[1].date)) * 1

\* C5 amended: as stated, except that B, 150 ordinal units after A in the same
\* lane, is raised to X = X(A) + nodeWidth + nodeGapX = 450.
LayoutExampleClamped ==
  LayoutExample =>
    /\ LayoutPos(Scenes[1]).y = 0 /\ LayoutPos(Scenes[2]).y = 0
    /\ LayoutPos(Scenes[3]).y = 500
    /\ LayoutPos(Scenes[1]).x = 0
    /\ (dateToOrdinal(Scenes[2].date) - dateToOrdinal(Scenes[1].date)) * 1 = 150
    /\ LayoutPos(Scenes[2]).x = 450

LayoutExampleWitness == LayoutExample /\ LayoutPos(Scenes[2]).x = 0 + 400 + 50

\* The X values of the layout in date-sorted order.
SortedXs ==
  LET sorted == sortByDate(Scenes)
  IN ArrayOf([i \in 1..Len(sorted) |-> LayoutPos(sorted[i]).x])

Slot == layoutConfig.nodeWidth + 2 * layoutConfig.nodeGapX

\* C6 as stated: in Ordered mode the X values in date-sorted order are
\* 0, d, 2d, ... with d = nodeWidth + 2*nodeGapX and strictly increase, for
\* every configuration of the invariant.
OrderedStrictlyIncreasing ==
  (layout.computed /\ layoutConfig.layoutMode = "ordered") =>
    /\ \A i \in 1..Len(SortedXs) : SortedXs[i] = (i - 1) * Slot
    /\ \A i \in 1..(Len(SortedXs) - 1) : SortedXs[i + 1] > SortedXs[i]

\* C6 amended: the X values are 0, d, 2d, ... with d = nodeWidth + 2*nodeGapX;
\* they strictly increase when d > 0 and are all 0 when d = 0.
OrderedArithmetic ==
  (layout.computed /\ layoutConfig.layoutMode = "ordered") =>
    /\ \A i \in 1..Len(SortedXs) : SortedXs[i] = (i - 1) * Slot
    /\ Slot > 0 => \A i \in 1..(Len(SortedXs) - 1) : SortedXs[i + 1] > SortedXs[i]
    /\ Slot = 0 => \A i \in 1..Len(SortedXs) : SortedXs[i] = 0

\* Three scenes, two of them with one date, laid out in Ordered mode.
OrderedArithmeticWitness ==
  /\ layout.computed
  /\ layoutConfig.layoutMode = "ordered"
  /\ Slot > 0
  /\ Len(Scenes) = 3
  /\ Scenes[1].date = Scenes[3].date
  /\ compareAbstractDates(Scenes[2].date, Scenes[1].date) < 0
  /\ SortedXs = <<0, Slot, 2 * Slot>>

\* C7: with every scene where the layout put it, getArcFromY(k * arcSpacing)
\* is the arc calculateLayout placed in lane k.
ArcRoundTrip ==
  (result.op = "getArcFromY" /\ NodesHoldLayout) =>
    \A i \in 1..Len(Scenes) :
      LayoutPos(Scenes[i]).y = result.arg => result.val = Scenes[i].arc

\* Lane 1 queried on a sorted canvas whose first scene (in canvas order) lies
\* in lane 1.
ArcRoundTripWitness ==
  /\ result.op = "getArcFromY"
  /\ NodesHoldLayout
  /\ Len(Scenes) >= 2
  /\ result.arg = layoutConfig.arcSpacing
  /\ LayoutPos(Scenes[1]).y = result.arg
  /\ result.val = Scenes[1].arc
  /\ \E i \in 1..Len(Scenes) : liveY(nodes, Scenes[i].nodeId) = 0

\* The first position where two dates differ, missing segments read as 0.
FirstDifference(a, b) ==
  CHOOSE i \in 1..Max2(Len(a), Len(b)) :
    Seg(a, i) # Seg(b, i) /\ \A j \in 1..(i - 1) : Seg(a, j) = Seg(b, j)

SameWhenPadded(a, b) == \A i \in 1..Max2(Len(a), Len(b)) : Seg(a, i) = Seg(b, i)

\* C8: compareAbstractDates is a total order on dates of one arity
\* (compare(a,a) = 0, antisymmetric in sign, 0 only for equal dates,
\* transitive), and for dates of different lengths it is the lexicographic
\* comparison with each missing trailing segment read as 0.
CompareIsTotalOrder ==
  result.op = "compareAbstractDates" =>
    LET a == result.arg.a
        b == result.arg.b
        c == result.arg.c
        r == result.val
    IN /\ r.aa = 0
       /\ Sign(r.ab) = 0 - Sign(r.ba)
       /\ (Len(a) = Len(b) /\ r.ab = 0) => a = b
       /\ (r.ab <= 0 /\ r.bc <= 0) => r.ac <= 0
       /\ SameWhenPadded(a, b) => r.ab = 0
       /\ ~SameWhenPadded(a, b) =>
            LET i == FirstDifference(a, b) IN r.ab = Seg(a, i) - Seg(b, i)

\* A date compared with a longer one that differs only beyond its end, and
\* with its own zero-padded copy.
CompareIsTotalOrderWitness ==
  /\ result.op = "compareAbstractDates"
  /\ Len(result.arg.a) < Len(result.arg.b)
  /\ Len(result.arg.c) = Len(result.arg.b)
  /\ result.val.ab < 0 /\ result.val.ba > 0
  /\ result.val.ac = 0
  /\ result.val.bc > 0

StableRanks(scenes) ==
  ArrayOf([i \in 1..Len(scenes) |->
    Cardinality({j \in 1..Len(scenes) :
                   \/ compareAbstractDates(scenes[j].date, scenes[i].date) < 0
                   \/ /\ compareAbstractDates(scenes[j].date, scenes[i].date) = 0
                      /\ j < i})])

\* For every scene, the place of the earliest scene of its arc.
FirstAppearances(scenes) ==
  LET ranks == StableRanks(scenes)
  IN ArrayOf([i \in 1..Len(scenes) |->
       CHOOSE r \in 0..Len(scenes) :
         /\ \E j \in 1..Len(scenes) : scenes[j].arc = scenes[i].arc /\ ranks[j] = r
         /\ \A j \in 1..Len(scenes) : scenes[j].arc = scenes[i].arc => ranks[j] >= r])

\* C12: lanes are ordered by first appearance in the stable date sort (equal
\* dates keep input order): arc P lies above arc Q exactly when the earliest
\* scene of P comes before the earliest scene of Q, and the Y of every scene is
\* the number of arcs that appear before its arc, times arcSpacing.
LaneOrderByFirstAppearance ==
  layout.computed =>
    LET scenes == Scenes
        first == FirstAppearances(scenes)
        n == Len(scenes)
    IN /\ \A i \in 1..n :
            layout.map[scenes[i].nodeId].y =
              Cardinality({first[j] : j \in {k \in 1..n : first[k] < first[i]}})
                * layoutConfig.arcSpacing
       /\ \A i \in 1..n, j \in 1..n :
            (layout.map[scenes[i].nodeId].y < layout.map[scenes[j].nodeId].y)
              <=> (first[i] < first[j])

\* Two arcs whose earliest scenes have the same date, the later one in input
\* order in lane 1, and a scene of lane 0 that is later than the first scene
\* of lane 1.
LaneOrderByFirstAppearanceWitness ==
  /\ layout.computed
  /\ \E i \in 1..Len(Scenes), j \in 1..Len(Scenes), k \in 1..Len(Scenes) :
       /\ i < j
       /\ Scenes[i].arc # Scenes[j].arc
       /\ Scenes[k].arc = Scenes[i].arc
       /\ compareAbstractDates(Scenes[i].date, Scenes[j].date) = 0
       /\ compareAbstractDates(Scenes[j].date, Scenes[k].date) < 0
       /\ StableRanks(Scenes)[i] = 0
       /\ LayoutPos(Scenes[i]).y = 0
       /\ LayoutPos(Scenes[k]).y = 0
       /\ LayoutPos(Scenes[j]).y = layoutConfig.arcSpacing

\* The scenes whose ordinal is at most the target x / xScale + minOrdinal, as
\* indices into Scenes; ordinals are integers and xScale is positive, so the
\* comparison is made on (ordinal - minOrdinal) * xScale and x.
AtOrBeforeTarget(scenes) ==
  {i \in 1..Len(scenes) :
     \E m \in 1..Len(scenes) :
       /\ \A j \in 1..Len(scenes) :
            dateToOrdinal(scenes[m].date) <= dateToOrdinal(scenes[j].date)
       /\ (dateToOrdinal(scenes[i].date) - dateToOrdinal(scenes[m].date)) * layoutConfig.xScale
            <= result.arg}

\* C20: in Absolute mode, with 'before' the chronologically last scene whose
\* ordinal is <= x / xScale + minOrdinal and 'after' the chronologically first
\* scene whose ordinal is greater, getDateFromX gives before.date with the last
\* segment raised by 1 when 'before' exists, otherwise after.date with the last
\* segment lowered by 1 but not below 1; never a midpoint of two dates.
AbsoluteDateFromX ==
  (/\ result.op = "getDateFromX"
   /\ layoutConfig.layoutMode = "absolute"
   /\ Len(Scenes) > 0) =>
    LET scenes == Scenes
        ranks == StableRanks(scenes)
        early == AtOrBeforeTarget(scenes)
        late == (1..Len(scenes)) \ early
        n == Len(result.val)
    IN IF early # {}
       THEN LET before == CHOOSE i \in early : \A j \in early : ranks[j] <= ranks[i]
            IN /\ n = Len(scenes[before].date)
               /\ \A k \in 1..n - 1 : result.val[k] = scenes[before].date[k]
               /\ result.val[n] = scenes[before].date[n] + 1
       ELSE LET after == CHOOSE i \in late : \A j \in late : ranks[i] <= ranks[j]
            IN /\ n = Len(scenes[after].date)
               /\ \A k \in 1..n - 1 : result.val[k] = scenes[after].date[k]
               /\ result.val[n] = Max2(1, scenes[after].date[n] - 1)

\* A query between two scenes that are months apart answers the day after the
\* earlier one, and a query left of a first scene dated the 1st answers the 1st.
AbsoluteDateFromXWitness ==
  /\ result.op = "getDateFromX"
  /\ layoutConfig.layoutMode = "absolute"
  /\ \/ /\ result.arg = 100
        /\ {Scenes[i].date : i \in 1..Len(Scenes)} = {<<2024, 1, 1>>, <<2024, 6, 1>>}
        /\ result.val = <<2024, 1, 2>>
     \/ /\ result.arg = -100
        /\ Len(Scenes) > 0
        /\ result.val = <<2024, 1, 1>>

\* ------------------------------------------------------------ SpecSync

\* Story dates of the reconciliation example.
SyncDates == {<<2024, 1, 10>>, <<2024, 1, 15>>, <<2024, 2, 1>>}

SyncConfigs ==
  {DEFAULT_LAYOUT_CONFIG, [DEFAULT_LAYOUT_CONFIG EXCEPT !.layoutMode = "ordered"]}

\* Where the user drops a dragged node.
DragXs == {-100, 250, 600}

DragYs == {0, 200, 250, 500}

\* The notes of the canvas are tagged scenes; the last one may be a note
\* without a story-date, a file node that is no scene.
InitSync ==
  \E k \in 1..MaxEvents :
    \E fm \in [1..k -> [date : SyncDates \cup {NoDate}, arc : Arcs]] :
      \E config \in SyncConfigs :
        /\ \A i \in 1..k : fm[i].date = NoDate => (i = k /\ fm[i].arc = "Main")
        /\ nodes = [i \in 1..k |-> DroppedNode(i)]
        /\ edges = <<>>
        /\ frontmatter = fm
        /\ links = {}
        /\ layoutConfig = config
        /\ layout = NoLayout
        /\ result = NoResult
        /\ pending = <<>>
        /\ log = <<>>
        /\ hooks = NoHooks

\* The user drags file node i to (x, y) on a canvas on which every scene is
\* where the layout put it and every other file node where it was dropped.
dragTo(i, x, y) ==
  /\ layout.computed
  /\ nodes[i].type = "file"
  /\ \A j \in 1..Len(nodes) :
       nodes[j].type = "file" =>
         IF Has(layout.map, nodes[j].id)
         THEN nodes[j].x = layout.map[nodes[j].id].x /\ nodes[j].y = layout.map[nodes[j].id].y
         ELSE nodes[j].x = DroppedNode(nodes[j].file).x /\ nodes[j].y = DroppedNode(nodes[j].file).y
  /\ nodes' = [nodes EXCEPT ![i].x = x, ![i].y = y]
  /\ result' = [op |-> "dragNode", arg |-> nodes[i].id, val |-> 0]
  /\ UNCHANGED <<edges, frontmatter, links, hooks, layoutConfig, layout, pending, log>>

DragNode ==
  \E i \in 1..Len(nodes), x \in DragXs, y \in DragYs : dragTo(i, x, y)

NextSync == SortStoryboard \/ DragNode \/ CalculateSyncChanges

SpecSync == InitSync /\ [][NextSync]_vars

\* ------------------------------------------------------------ claims: sync

\* C1 as stated: when every scene's live position is the one calculateLayout
\* computes for it, calculateSyncChanges returns no change proposal.
SyncIsNoOpOnLayout ==
  (result.op = "calculateSyncChanges" /\ NodesHoldLayout) => result.val = <<>>

\* The reconciliation example: P, Q, R of arc Main, R's node between P's and Q's.
SyncExample ==
  /\ result.op = "calculateSyncChanges"
  /\ Len(Scenes) = 3
  /\ Scenes[1].date = <<2024, 1, 10>> /\ Scenes[1].arc = "Main"
  /\ Scenes[2].date = <<2024, 1, 15>> /\ Scenes[2].arc = "Main"
  /\ Scenes[3].date = <<2024, 2, 1>> /\ Scenes[3].arc = "Main"
  /\ liveX(nodes, Scenes[1].nodeId) < liveX(nodes, Scenes[3].nodeId)
  /\ liveX(nodes, Scenes[3].nodeId) < liveX(nodes, Scenes[2].nodeId)

\* C2 as stated: in the reconciliation example calculateSyncChanges proposes
\* the new date [2024,1,12] for R.
SyncExampleAsStated ==
  SyncExample =>
    \E k \in 1..Len(result.val) :
      /\ result.val[k].nodeId = Scenes[3].nodeId
      /\ result.val[k].newDate = <<2024, 1, 12>>

\* The sum and the number of the live Y of the scenes stored in an arc: the
\* centroid of the arc is sum / count.
ArcSum(scenes, arc) ==
  sumOf(ArrayOf([k \in 1..Len(scenes) |->
          IF scenes[k].arc = arc THEN liveY(nodes, scenes[k].nodeId) ELSE 0]))

ArcCount(scenes, arc) == Cardinality({k \in 1..Len(scenes) : scenes[k].arc = arc})

\* The distance of y to the centroid of arc a is at most (strictly less than)
\* its distance to the centroid of arc b.
CloserOrEqual(scenes, y, a, b) ==
  Abs(ArcCount(scenes, a) * y - ArcSum(scenes, a)) * ArcCount(scenes, b)
    <= Abs(ArcCount(scenes, b) * y - ArcSum(scenes, b)) * ArcCount(scenes, a)

\* The arc proposed for scene i, NoArc when none is.
ProposedArc(scenes, i) ==
  LET found == SelectSeq(result.val, LAMBDA c : c.nodeId = scenes[i].nodeId)
  IN IF found = <<>> THEN NoArc ELSE found[1].newArc

\* C17: calculateSyncChanges proposes a new arc for a scene exactly when the
\* arc whose centroid (mean live Y of the scenes stored in it) is closest to the
\* live Y of the scene is not the stored arc and that distance is strictly less
\* than arcSpacing / 2, and the proposed arc is that closest arc.  When the
\* stored arc is as close as the closest other arc, either outcome is allowed.
ArcReassignment ==
  result.op = "calculateSyncChanges" =>
    LET scenes == Scenes
        arcs == {scenes[k].arc : k \in 1..Len(scenes)}
    IN \A i \in 1..Len(scenes) :
         LET y == liveY(nodes, scenes[i].nodeId)
             closest == {a \in arcs : \A b \in arcs : CloserOrEqual(scenes, y, a, b)}
             near == \E a \in closest :
                       2 * Abs(ArcCount(scenes, a) * y - ArcSum(scenes, a))
                         < layoutConfig.arcSpacing * ArcCount(scenes, a)
             newArc == ProposedArc(scenes, i)
         IN /\ newArc # NoArc => (newArc \in closest /\ newArc # scenes[i].arc /\ near)
            /\ (scenes[i].arc \notin closest /\ near) => newArc \in closest

\* A scene stored in Main whose node is closest to the centroid of Side, a lane
\* that holds a scene at Y = 500, is proposed Side.
ArcReassignmentWitness ==
  /\ result.op = "calculateSyncChanges"
  /\ \E i \in 1..Len(Scenes), j \in 1..Len(Scenes) :
       /\ Scenes[i].arc = "Main" /\ ProposedArc(Scenes, i) = "Side"
       /\ Scenes[j].arc = "Side" /\ liveY(nodes, Scenes[j].nodeId) = 500

\* The places of the scenes in the left-to-right order of the scenes by live
\* X; scenes of equal X keep the order of the canvas.
VisualRanks(scenes) ==
  ArrayOf([i \in 1..Len(scenes) |->
    Cardinality({j \in 1..Len(scenes) :
                   \/ liveX(nodes, scenes[j].nodeId) < liveX(nodes, scenes[i].nodeId)
                   \/ /\ liveX(nodes, scenes[j].nodeId) = liveX(nodes, scenes[i].nodeId)
                      /\ j < i})])

\* The date proposed for scene i, NoDate when none is.
ProposedDate(scenes, i) ==
  LET found == SelectSeq(result.val, LAMBDA c : c.nodeId = scenes[i].nodeId)
  IN IF found = <<>> THEN NoDate ELSE found[1].newDate

\* Scene i breaks the order of dates with the scene right before it or right
\* behind it in the left-to-right order of the scenes.
DateViolated(scenes, i) ==
  LET ranks == VisualRanks(scenes)
  IN \E j \in 1..Len(scenes) :
       \/ /\ ranks[j] = ranks[i] - 1
          /\ compareAbstractDates(scenes[i].date, scenes[j].date) <= 0
       \/ /\ ranks[j] = ranks[i] + 1
          /\ compareAbstractDates(scenes[i].date, scenes[j].date) >= 0

\* C18 as stated: the predecessor and the successor of a scene are the scenes
\* right before and right behind it in the left-to-right order of all scenes by
\* live X, whatever their arc and whatever other file nodes the canvas holds,
\* and a new date is proposed exactly when compare(scene.date, predecessor.date)
\* <= 0 or compare(scene.date, successor.date) >= 0.
DateViolationByVisualOrder ==
  result.op = "calculateSyncChanges" =>
    LET scenes == Scenes
    IN \A i \in 1..Len(scenes) :
         (ProposedDate(scenes, i) # NoDate) <=> DateViolated(scenes, i)

\* The last segment of the date of the scene at place idx of the visual
\* sequence, as a sequence that is empty when the place holds no scene.
LastOfNeighbour(scenes, visualSequence, idx) ==
  IF idx < 1 \/ idx > Len(visualSequence) THEN <<>>
  ELSE LET found == SelectSeq(scenes, LAMBDA e : e.nodeId = visualSequence[idx])
       IN IF found = <<>> THEN <<>> ELSE <<found[1].date[Len(found[1].date)]>>

\* The last segment the synthesis rule gives for the neighbours' last segments.
SynthesizedLast(pred, succ) ==
  IF pred # <<>> /\ succ # <<>>
  THEN IF (pred[1] + succ[1]) \div 2 <= pred[1] THEN pred[1] + 1
       ELSE (pred[1] + succ[1]) \div 2
  ELSE IF pred # <<>> THEN pred[1] + 1
  ELSE succ[1] - 1

\* C19: a proposed new date has the segments of the stored date of the scene
\* but for the last one, which is floor((pred.last + succ.last) / 2) when both
\* neighbours exist, or pred.last + 1 if that floor is <= pred.last; pred.last
\* + 1 with a predecessor alone; succ.last - 1 with a successor alone.
DateSynthesis ==
  result.op = "calculateSyncChanges" =>
    LET scenes == Scenes
        visualSequence == visualSequenceOf(nodes)
    IN \A i \in 1..Len(scenes) :
         LET newDate == ProposedDate(scenes, i)
             idx == IndexOf(visualSequence, scenes[i].nodeId)
             pred == LastOfNeighbour(scenes, visualSequence, idx - 1)
             succ == LastOfNeighbour(scenes, visualSequence, idx + 1)
         IN newDate # NoDate =>
              /\ Len(newDate) = Len(scenes[i].date)
              /\ \A k \in 1..Len(newDate) - 1 : newDate[k] = scenes[i].date[k]
              /\ newDate[Len(newDate)] = SynthesizedLast(pred, succ)

\* A new date between two neighbours whose midpoint does not exceed the
\* predecessor, and a new date from a successor alone.
DateSynthesisWitness ==
  /\ result.op = "calculateSyncChanges"
  /\ \E i \in 1..Len(Scenes), j \in 1..Len(Scenes) :
       LET visualSequence == visualSequenceOf(nodes)
           idx == IndexOf(visualSequence, Scenes[i].nodeId)
           pred == LastOfNeighbour(Scenes, visualSequence, idx - 1)
           succ == LastOfNeighbour(Scenes, visualSequence, idx + 1)
           first == LastOfNeighbour(Scenes, visualSequence, 2)
       IN /\ pred = <<15>> /\ succ = <<10>>
          /\ ProposedDate(Scenes, i) = [Scenes[i].date EXCEPT ![3] = 16]
          /\ visualSequence[1] = Scenes[j].nodeId
          /\ first # <<>>
          /\ ProposedDate(Scenes, j) = [Scenes[j].date EXCEPT ![3] = first[1] - 1]

\* ------------------------------------------------------------ SpecManager

\* What a note's frontmatter holds: dates of the reconciliation example, in
\* two arcs.
ManagerNotes ==
  {[date |-> <<2024, 1, 10>>, arc |-> "Main"],
   [date |-> <<2024, 1, 15>>, arc |-> "Main"],
   [date |-> <<2024, 1, 10>>, arc |-> "Side"]}

\* randomId() of one run.
RandomIds == {1, 2}

\* Where the user drops a dragged node: before the first scene, and between
\* the first two on the next lane.
ManagerDrops == {<<-100, 0>>, <<250, 500>>}

UserTextNode == TextNode(<<"", "text", 1>>, <<"my remark">>, 100, -400)

UserEdge ==
  [id |-> <<"", "edge", 1>>, fromNode |-> FileNodeId(2), toNode |-> FileNodeId(1),
   fromSide |-> "right", toSide |-> "left", label |-> NoLabel]

\* Notes 1 and 2 link to each other and note 1 to itself; the canvas holds a
\* text node of the user's and, between the first two notes, an edge of the
\* user's.
InitManager ==
  \E k \in 0..MaxEvents :
    \E fm \in [1..k -> ManagerNotes] :
      /\ nodes = [i \in 1..k |-> DroppedNode(i)] \o <<UserTextNode>>
      /\ edges = IF k >= 2 THEN <<UserEdge>> ELSE <<>>
      /\ frontmatter = fm
      /\ links = {<<1, 1>>, <<1, 2>>, <<2, 1>>}
      /\ layoutConfig = DEFAULT_LAYOUT_CONFIG
      /\ layout = NoLayout
      /\ result = NoResult
      /\ pending = <<>>
      /\ log = <<>>
      /\ hooks = NoHooks

Notice(text) == [kind |-> "notice", file |-> 0, key |-> text, value |-> <<>>]

Write(file, key, value) == [kind |-> "write", file |-> file, key |-> key, value |-> value]

\* The metadata cache has indexed every write: it does so within moments, and
\* the user's next command or drag comes after that.
Settled == pending = <<>>

\* The command "Build storyboard": buildStoryboard on the active canvas.  A
\* build that follows a build records the canvas it started from.
BuildStoryboard ==
  LET b == buildStoryboard(nodes, edges, frontmatter, links, layoutConfig)
  IN \E r \in RandomIds :
       /\ Settled
       /\ nodes' = b.nodes
       /\ edges' = randomId(b.edges, r)
       /\ layout' = IF b.built THEN [computed |-> TRUE, map |-> b.positions] ELSE layout
       /\ result' = IF result.op = "buildStoryboard"
                    THEN [op |-> "buildStoryboard", arg |-> "again",
                          val |-> [nodes |-> nodes, edges |-> edges]]
                    ELSE [op |-> "buildStoryboard", arg |-> "first", val |-> 0]
       /\ log' = <<Notice(IF b.built THEN "Storyboard built" ELSE "No scenes")>>
       /\ UNCHANGED <<frontmatter, links, hooks, layoutConfig, pending>>

\* No date of the vault comes from an earlier sync: the model follows the
\* dates through one reconciliation.
DatesAsTagged ==
  \A f \in DOMAIN frontmatter : frontmatter[f].date \in {n.date : n \in ManagerNotes}

\* The user drags the node of a note.
DragScene ==
  \E i \in 1..Len(nodes), drop \in ManagerDrops :
    /\ Settled
    /\ DatesAsTagged
    /\ dragTo(i, drop[1], drop[2])

\* setFrontmatterKey for every change, in order.
RECURSIVE writesOf(_, _)
writesOf(changes, i) ==
  IF i > Len(changes) THEN <<>>
  ELSE (IF changes[i].newArc # NoArc
        THEN <<Write(changes[i].file, "story-arc", changes[i].newArc)>> ELSE <<>>)
       \o (IF changes[i].newDate # NoDate
           THEN <<Write(changes[i].file, "story-date", formatAbstractDate(changes[i].newDate))>>
           ELSE <<>>)
       \o writesOf(changes, i + 1)

\* The metadata of the notes once the first j of the writes are indexed.
RECURSIVE applyWrites(_, _, _)
applyWrites(fm, writes, j) ==
  IF j = 0 THEN fm
  ELSE LET before == applyWrites(fm, writes, j - 1)
           w == writes[j]
       IN IF w.key = "story-arc" THEN [before EXCEPT ![w.file].arc = w.value]
          ELSE [before EXCEPT ![w.file].date = w.value]

\* The command "Sync canvas to notes": syncStoryboard on the active canvas.
\* The writes reach the files at once; the metadata cache indexes them in
\* order, and any number of them before the closing buildStoryboard reads it.
SyncStoryboard ==
  /\ Settled
  /\ DatesAsTagged
  /\ LET scenes == Scenes
         changes == calculateSyncChanges(nodes, scenes, layoutConfig)
         writes == writesOf(changes, 1)
     IN IF Len(scenes) = 0
        THEN /\ log' = <<Notice("No scenes")>>
             /\ result' = [op |-> "syncStoryboard", arg |-> <<>>, val |-> 0]
             /\ UNCHANGED <<nodes, edges, frontmatter, links, hooks, layoutConfig, layout, pending>>
        ELSE \E j \in 0..Len(writes) :
               LET indexed == applyWrites(frontmatter, writes, j)
                   b == buildStoryboard(nodes, edges, indexed, links, layoutConfig)
               IN \E r \in RandomIds :
                  /\ frontmatter' = indexed
                  /\ pending' = SubSeq(writes, j + 1, Len(writes))
                  /\ nodes' = b.nodes
                  /\ edges' = randomId(b.edges, r)
                  /\ layout' = IF b.built THEN [computed |-> TRUE, map |-> b.positions]
                               ELSE layout
                  /\ log' = writes \o <<Notice(IF changes = <<>> THEN "No changes"
                                               ELSE "Auto-synced")>>
                  /\ result' = [op |-> "syncStoryboard", arg |-> changes, val |-> 0]
                  /\ UNCHANGED <<links, hooks, layoutConfig>>

\* The metadata cache indexes the oldest write it has not seen yet.
MetadataChanged ==
  /\ pending # <<>>
  /\ frontmatter' = applyWrites(frontmatter, pending, 1)
  /\ pending' = Tail(pending)
  /\ result' = [op |-> "metadataChanged", arg |-> 0, val |-> 0]
  /\ UNCHANGED <<nodes, edges, links, hooks, layoutConfig, layout, log>>

NextManager == BuildStoryboard \/ DragScene \/ SyncStoryboard \/ MetadataChanged

SpecManager == InitManager /\ [][NextManager]_vars

\* ------------------------------------------------------------ claims: manager

\* C3 as stated: in a run of syncStoryboard no frontmatter write happens before
\* the proposals were presented and the user confirmed them.  The log of a
\* run holds what the user was shown and what was written, in order.
SyncWritesOnlyConfirmed ==
  \A i \in 1..Len(log) :
    log[i].kind = "write" => \E j \in 1..(i - 1) : log[j].kind = "confirm"

\* The edges with the random suffix of their ids left out.
StripRandom(canvasEdges) ==
  ArrayOf([k \in 1..Len(canvasEdges) |->
             [canvasEdges[k] EXCEPT !.id = <<canvasEdges[k].id[1], canvasEdges[k].id[2]>>]])

NoDuplicates ==
  /\ \A i, j \in 1..Len(nodes) : i # j => nodes[i].id # nodes[j].id
  /\ \A i, j \in 1..Len(edges) :
       i # j => StripRandom(edges)[i] # StripRandom(edges)[j]

\* C10: a buildStoryboard that follows a buildStoryboard leaves the canvas the
\* first one left: the same nodes at the same positions, markers and labels
\* included, and the same generated edges but for the random suffix of their
\* ids; no node id and no generated edge occurs twice.
RebuildIsIdempotent ==
  (result.op = "buildStoryboard" /\ result.arg = "again") =>
    /\ nodes = result.val.nodes
    /\ StripRandom(edges) = StripRandom(result.val.edges)
    /\ NoDuplicates

\* A second build in a row of a canvas with scenes in two arcs, with a
\* chronological edge, a cross-link edge and markers, whose edge ids differ
\* from those of the first build.
RebuildIsIdempotentWitness ==
  /\ result.op = "buildStoryboard" /\ result.arg = "again"
  /\ Len(arcOrderOf(Scenes)) = 2
  /\ \E k \in 1..Len(edges) : IsGenerated(edges[k].id, "edge-chrono-")
  /\ \E k \in 1..Len(edges) : IsGenerated(edges[k].id, "edge-link-")
  /\ \E k \in 1..Len(nodes) : IsGenerated(nodes[k].id, "nodelabel-")
  /\ edges # result.val.edges

\* Every node and every edge of the user's (id without the reserved prefix)
\* that is on the canvas before a step is on the canvas after it.
UserArtifactsKept ==
  /\ \A k \in 1..Len(nodes) :
       nodes[k].id[1] # MARKER_PREFIX => \E j \in 1..Len(nodes') : nodes'[j].id = nodes[k].id
  /\ \A k \in 1..Len(edges) :
       edges[k].id[1] # MARKER_PREFIX => \E j \in 1..Len(edges') : edges'[j].id = edges[k].id

\* C11 as stated: a step of buildStoryboard keeps every node and every edge of
\* the user's.
BuildKeepsUserArtifacts ==
  [][result'.op = "buildStoryboard" => UserArtifactsKept]_vars

\* ------------------------------------------------------------ SpecInspector

InspectorDates == {<<2024, 3, 1>>, <<2024, 5, 1>>, <<2024, 6, 1>>}

\* The story-deps entries a note may hold: a note of the canvas, a story-title,
\* a name no note has; and an entry whose kind is not known.
RawDeps ==
  ({"B", "Beta", "Z"} \X {"before", "after"}) \cup {<<"B", "during">>}

\* The story-deps of a note: none, one or two entries.
RawDepLists == UNION {[1..n -> RawDeps] : n \in 0..2}

\* Notes with a story-date; the story-arc may be missing.
TaggedNotes == [date : InspectorDates, arc : {"Main"}] \cup [date : InspectorDates]

\* Note 1 holds the dependencies, note 2 may carry a story-title.
InitInspector ==
  \E k \in 1..MaxEvents :
    \E fm \in [1..k -> TaggedNotes] :
      \E deps \in RawDepLists :
        \E titled \in BOOLEAN :
          /\ nodes = [i \in 1..k |-> DroppedNode(i)]
          /\ edges = <<>>
          /\ frontmatter =
               [i \in 1..k |->
                  IF i = 1 THEN fm[i] @@ [deps |-> deps]
                  ELSE IF i = 2 /\ titled THEN fm[i] @@ [title |-> "Beta"]
                  ELSE fm[i]]
          /\ links = {}
          /\ layoutConfig = DEFAULT_LAYOUT_CONFIG
          /\ layout = NoLayout
          /\ result = NoResult
          /\ pending = <<>>
          /\ log = <<>>
          /\ hooks = NoHooks

\* fm['story-arc']?.toString() || ''
currentArcOf(note) == IF "arc" \in DOMAIN note THEN note.arc ELSE ""

\* renderInspector(node) for a file node of the canvas: the constraint window
\* it shows.
RenderInspector ==
  \E i \in 1..Len(nodes) :
    /\ nodes[i].type = "file"
    /\ result' = [op |-> "renderInspector", arg |-> i,
                  val |-> constraintWindow(nodes[i].id,
                                           currentArcOf(frontmatter[nodes[i].file]),
                                           parseDeps(frontmatter[nodes[i].file]),
                                           Scenes)]
    /\ UNCHANGED <<nodes, edges, frontmatter, links, hooks, layoutConfig, layout, pending, log>>

NextInspector == RenderInspector

SpecInspector == InitInspector /\ [][NextInspector]_vars

\* ------------------------------------------------------------ claims: inspector

\* The node whose window is on display, and its scene.
Inspected == nodes[result.arg]

InspectedDeps == parseDeps(frontmatter[Inspected.file])

\* The window of the inspected node from its arc alone.
ArcWindow ==
  arcConstraints(Inspected.id, currentArcOf(frontmatter[Inspected.file]), Scenes)

\* The dates of the targets found for the dependencies of one kind.
ResolvedDates(kind) ==
  {findTarget(Scenes, InspectedDeps[k])[1].date :
     k \in {m \in 1..Len(InspectedDeps) :
              /\ InspectedDeps[m].type = kind
              /\ findTarget(Scenes, InspectedDeps[m]) # <<>>}}

\* The inspected scene is A with the single dependency {B, After} and B is
\* dated [2024,5,1].
SingleAfterB ==
  /\ result.op = "renderInspector"
  /\ basename(Inspected.file) = "A"
  /\ InspectedDeps = <<[basename |-> "B", type |-> "after"]>>
  /\ findTarget(Scenes, InspectedDeps[1]) # <<>>
  /\ findTarget(Scenes, InspectedDeps[1])[1].date = <<2024, 5, 1>>

\* The example's outcome: earliest is [2024,5,1] and its source names B.
BoundedByB ==
  /\ result.val.earliestPossible = <<2024, 5, 1>>
  /\ result.val.earliestSource[1] = findTarget(Scenes, InspectedDeps[1])[1].title

\* C13 as stated: with the single dependency {B, After}, B dated [2024,5,1] and
\* no later arc predecessor, earliest is [2024,5,1] with a source naming B.
DependencyExampleAsStated ==
  (/\ SingleAfterB
   /\ \/ ArcWindow.earliestPossible = NoBound
      \/ compareAbstractDates(ArcWindow.earliestPossible, <<2024, 5, 1>>) <= 0)
  => BoundedByB

\* C13: the earliest bound of the window is the greatest by compare of the arc
\* bound and the dates of the resolved 'after' targets, the latest bound the
\* smallest of the arc bound and the dates of the resolved 'before' targets, a
\* bound being null when there is none of them; and with the single dependency
\* {B, After}, B dated [2024,5,1] and no arc predecessor of that date or a later
\* one, earliest is [2024,5,1] with a source naming B.
DependencyBound ==
  result.op = "renderInspector" =>
    LET w == result.val
        lower == ResolvedDates("after") \cup
                 (IF ArcWindow.earliestPossible = NoBound THEN {}
                  ELSE {ArcWindow.earliestPossible})
        upper == ResolvedDates("before") \cup
                 (IF ArcWindow.latestPossible = NoBound THEN {}
                  ELSE {ArcWindow.latestPossible})
    IN /\ IF lower = {} THEN w.earliestPossible = NoBound
          ELSE /\ w.earliestPossible \in lower
               /\ \A d \in lower : compareAbstractDates(w.earliestPossible, d) >= 0
       /\ IF upper = {} THEN w.latestPossible = NoBound
          ELSE /\ w.latestPossible \in upper
               /\ \A d \in upper : compareAbstractDates(w.latestPossible, d) <= 0
       /\ (/\ SingleAfterB
           /\ \/ ArcWindow.earliestPossible = NoBound
              \/ compareAbstractDates(ArcWindow.earliestPossible, <<2024, 5, 1>>) < 0)
          => BoundedByB

\* The example with an arc predecessor that is earlier than B, and a window
\* whose arc predecessor is later than an 'after' target and stays the bound.
DependencyBoundWitness ==
  /\ result.op = "renderInspector"
  /\ \/ /\ SingleAfterB
        /\ ArcWindow.earliestPossible = <<2024, 3, 1>>
        /\ BoundedByB
     \/ /\ ResolvedDates("after") = {<<2024, 3, 1>>}
        /\ ArcWindow.earliestPossible = <<2024, 5, 1>>
        /\ result.val.earliestPossible = <<2024, 5, 1>>
        /\ result.val.earliestSource[2] = "Arc"

\* The scenes that share the arc of scene i and stand before it (side = -1) or
\* behind it (side = 1) in the stable sort by date, as indices into Scenes.
ArcNeighbours(i, side) ==
  LET ranks == StableRanks(Scenes)
  IN {j \in 1..Len(Scenes) :
        /\ Scenes[j].arc = Scenes[i].arc
        /\ IF side < 0 THEN ranks[j] < ranks[i] ELSE ranks[j] > ranks[i]}

\* The date of the neighbour closest to scene i on one side, null without one.
NeighbourDate(i, side) ==
  LET ranks == StableRanks(Scenes)
      all == ArcNeighbours(i, side)
  IN IF all = {} THEN NoBound
     ELSE Scenes[CHOOSE j \in all :
                   \A m \in all : IF side < 0 THEN ranks[m] <= ranks[j]
                                  ELSE ranks[m] >= ranks[j]].date

\* C14 as stated: before the dependencies are applied the earliest bound is the
\* date of the immediate predecessor and the latest bound the date of the
\* immediate successor of the scene among the scenes of its arc sorted by date,
\* and a bound is null when the scene has no such neighbour.
ArcBoundIsNeighbour ==
  result.op = "renderInspector" =>
    \A i \in 1..Len(Scenes) :
      Scenes[i].nodeId = Inspected.id =>
        /\ ArcWindow.earliestPossible = NeighbourDate(i, -1)
        /\ ArcWindow.latestPossible = NeighbourDate(i, 1)
        /\ InspectedDeps = <<>> => result.val = ArcWindow

\* The window uses the date of scene j for dependency k: the bound of the
\* dependency's kind is at least as tight as that date, and it is that date
\* when the dependency is the only constraint of the node.
UsesDateOf(k, j) ==
  LET w == result.val
      d == Scenes[j].date
      alone == Len(InspectedDeps) = 1 /\ ArcWindow = OpenWindow
  IN IF InspectedDeps[k].type = "after"
     THEN /\ w.earliestPossible # NoBound
          /\ compareAbstractDates(w.earliestPossible, d) >= 0
          /\ alone => w.earliestPossible = d
     ELSE /\ w.latestPossible # NoBound
          /\ compareAbstractDates(w.latestPossible, d) <= 0
          /\ alone => w.latestPossible = d

\* C15 as stated: the target of a dependency is the scene whose title equals
\* the dependency's target name; whenever a scene with that title exists, its
\* date is the one used for the bound.
ResolvesByTitle ==
  result.op = "renderInspector" =>
    \A k \in 1..Len(InspectedDeps), j \in 1..Len(Scenes) :
      Scenes[j].title = InspectedDeps[k].basename => UsesDateOf(k, j)

\* C15: the target of a dependency is the scene whose note has the basename the
\* dependency names, whatever its title; whenever a scene of that basename
\* exists, its date is the one used for the bound.
ResolvesByBasename ==
  result.op = "renderInspector" =>
    \A k \in 1..Len(InspectedDeps), j \in 1..Len(Scenes) :
      basename(Scenes[j].file) = InspectedDeps[k].basename => UsesDateOf(k, j)

\* A dependency on B alone, B carrying a story-title: the bound is B's date
\* and the source shows B's title.
ResolvesByBasenameWitness ==
  /\ result.op = "renderInspector"
  /\ InspectedDeps = <<[basename |-> "B", type |-> "after"]>>
  /\ ArcWindow = OpenWindow
  /\ \E j \in 1..Len(Scenes) :
       /\ basename(Scenes[j].file) = "B"
       /\ Scenes[j].title = "Beta"
       /\ result.val.earliestPossible = Scenes[j].date
       /\ result.val.earliestSource = <<"Beta", "Dep">>

\* A sequence without its k-th element.
Without(seq, k) == SubSeq(seq, 1, k - 1) \o SubSeq(seq, k + 1, Len(seq))

\* C16: a dependency whose target matches no scene of the snapshot is ignored
\* without error: the window of the node, bounds and source labels, is the
\* window computed with that dependency removed.
DanglingIsIgnored ==
  result.op = "renderInspector" =>
    \A k \in 1..Len(InspectedDeps) :
      findTarget(Scenes, InspectedDeps[k]) = <<>> =>
        result.val = constraintWindow(Inspected.id,
                                      currentArcOf(frontmatter[Inspected.file]),
                                      Without(InspectedDeps, k), Scenes)

\* A dangling dependency on Z in front of a dependency on B that sets the
\* earliest bound.
DanglingIsIgnoredWitness ==
  /\ result.op = "renderInspector"
  /\ InspectedDeps = <<[basename |-> "Z", type |-> "after"],
                       [basename |-> "B", type |-> "after"]>>
  /\ findTarget(Scenes, InspectedDeps[1]) = <<>>
  /\ findTarget(Scenes, InspectedDeps[2]) # <<>>
  /\ result.val.earliestSource[2] = "Dep"
  /\ result.val.earliestPossible = findTarget(Scenes, InspectedDeps[2])[1].date

\* ------------------------------------------------------------ claims: date from X

\* The date the ordered rule gives for x: with the scenes in left-to-right
\* order and slot = nodeWidth + 2 * nodeGapX, the index floor((x + slot / 2) /
\* slot) is <= 0 when 2x < slot, >= n when 2x + slot >= 2 * n * slot, and k when
\* 2 * k * slot <= 2x + slot < 2 * (k + 1) * slot.
OrderedRule(scenes, x) ==
  LET ranks == VisualRanks(scenes)
      n == Len(scenes)
      slot == layoutConfig.nodeWidth + 2 * layoutConfig.nodeGapX
      at(r) == scenes[CHOOSE i \in 1..n : ranks[i] = r].date
  IN IF 2 * x < slot THEN decrementLast(at(0))
     ELSE IF 2 * x + slot >= 2 * n * slot THEN incrementLast(at(n - 1))
     ELSE incrementLast(at((CHOOSE k \in 1..n - 1 :
                              /\ 2 * k * slot <= 2 * x + slot
                              /\ 2 * x + slot < 2 * (k + 1) * slot) - 1))

LaneYs == {0, 250, 500}

\* A canvas of tagged scenes whose nodes the user has moved up and down.
InitLanes ==
  \E k \in 1..MaxEvents :
    \E arcs \in [1..k -> Arcs], ys \in [1..k -> LaneYs] :
      /\ nodes = [i \in 1..k |-> [DroppedNode(i) EXCEPT !.y = ys[i]]]
      /\ edges = <<>>
      /\ frontmatter = [i \in 1..k |-> [date |-> <<2024, 1, 1>>, arc |-> arcs[i]]]
      /\ links = {}
      /\ layoutConfig = DEFAULT_LAYOUT_CONFIG
      /\ layout = NoLayout
      /\ result = NoResult
      /\ pending = <<>>
      /\ log = <<>>
      /\ hooks = NoHooks

NextLanes == GetArcFromY

SpecLanes == InitLanes /\ [][NextLanes]_vars

\* ------------------------------------------------------------ claims: lanes

\* C23 as stated: for every y and every scene set that is not empty, lanes
\* dragged by hand included, getArcFromY returns an arc whose average live Y is
\* at minimal distance from y among all arcs.
SnapsToClosestLane ==
  (result.op = "getArcFromY" /\ Len(Scenes) > 0) =>
    LET scenes == Scenes
        arcs == {scenes[k].arc : k \in 1..Len(scenes)}
    IN /\ result.val \in arcs
       /\ \A b \in arcs : CloserOrEqual(scenes, result.arg, result.val, b)

\* ------------------------------------------------------------ claims: repair

\* The scene at place idx of the visual sequence, as a sequence that is empty
\* when the place holds no scene.
NeighbourScene(scenes, visualSequence, idx) ==
  IF idx < 1 \/ idx > Len(visualSequence) THEN <<>>
  ELSE findScene(scenes, visualSequence[idx])

\* C24 as stated: every new date calculateSyncChanges proposes compares
\* strictly greater than the stored date of the visual predecessor and strictly
\* less than the stored date of the visual successor, for each of the two
\* neighbours that exists.
NewDateRepairsOrder ==
  result.op = "calculateSyncChanges" =>
    LET scenes == Scenes
        visualSequence == visualSequenceOf(nodes)
    IN \A i \in 1..Len(scenes) :
         LET newDate == ProposedDate(scenes, i)
             idx == IndexOf(visualSequence, scenes[i].nodeId)
             pred == NeighbourScene(scenes, visualSequence, idx - 1)
             succ == NeighbourScene(scenes, visualSequence, idx + 1)
         IN newDate # NoDate =>
              /\ pred # <<>> => compareAbstractDates(newDate, pred[1].date) > 0
              /\ succ # <<>> => compareAbstractDates(newDate, succ[1].date) < 0

\* ------------------------------------------------------------ dependency store

\* `${basename}:${type}`, an entry of story-deps: its parts between the colons.
depStr(name, type) == <<name, type>>

\* An inverse that keeps the kind.
inverseTypeSame(type) == type

\* type === 'before' ? 'after' : 'before'
inverseType(type) == IF type = "before" THEN "after" ELSE "before"

\* vault.getMarkdownFiles().find(f => f.basename === name): the file, or 0.
findFileByBasename(fm, name) ==
  LET found == {f \in DOMAIN fm : basename(f) = name}
  IN IF found = {} THEN 0 ELSE CHOOSE f \in found : \A g \in found : f <= g

\* The processFrontMatter callback of saveDependency: story-deps, an array,
\* gains the entry unless it includes it.
addDep(note, entry) ==
  LET deps == IF "deps" \in DOMAIN note THEN note.deps ELSE <<>>
      added == IF \E k \in 1..Len(deps) : deps[k] = entry THEN deps ELSE Append(deps, entry)
  IN [deps |-> added] @@ note

\* The processFrontMatter callback of the remove button: the entry is filtered
\* out of story-deps, and an empty story-deps is deleted from the note.
removeDep(note, entry) ==
  IF "deps" \notin DOMAIN note THEN note
  ELSE LET arr == SelectSeq(note.deps, LAMBDA d : d # entry)
       IN IF arr = <<>> THEN [k \in DOMAIN note \ {"deps"} |-> note[k]]
          ELSE [deps |-> arr] @@ note

\* saveDependency(type) of the dialog of file about targetBasename: the entry
\* in the file, and the inverse entry in the target when the vault has it.
saveDependency(fm, file, targetBasename, type) ==
  LET own == [fm EXCEPT ![file] = addDep(@, depStr(targetBasename, type))]
      inverseDepStr == depStr(basename(file), inverseType(type))
      targetFile == findFileByBasename(fm, targetBasename)
  IN IF targetFile # 0
     THEN [own EXCEPT ![targetFile] = addDep(@, inverseDepStr)]
     ELSE own

\* The click on the remove button of dep in the dependencies of sourceFile.
removeDependency(fm, sourceFile, dep) ==
  LET own == [fm EXCEPT ![sourceFile] = removeDep(@, depStr(dep.basename, dep.type))]
      inverseDepStr == depStr(basename(sourceFile), inverseType(dep.type))
      targetFile == findFileByBasename(fm, dep.basename)
  IN IF targetFile # 0
     THEN [own EXCEPT ![targetFile] = removeDep(@, inverseDepStr)]
     ELSE own

\* ------------------------------------------------------------ SpecDeps

\* The raw story-deps of a note.
storyDeps(note) == IF "deps" \in DOMAIN note THEN note.deps ELSE <<>>

\* The stores the model follows: no note holds more than two entries.
WithinStore(fm) == \A f \in DOMAIN fm : Len(storyDeps(fm[f])) <= 2

\* Three notes A, B, C of arc Main, dated in this order or the reverse.
DepsNotes ==
  {<<[date |-> <<2024, 3, 1>>, arc |-> "Main"], [date |-> <<2024, 5, 1>>, arc |-> "Main"],
     [date |-> <<2024, 6, 1>>, arc |-> "Main"]>>,
   <<[date |-> <<2024, 6, 1>>, arc |-> "Main"], [date |-> <<2024, 5, 1>>, arc |-> "Main"],
     [date |-> <<2024, 3, 1>>, arc |-> "Main"]>>}

\* The dependencies the dialog can have written between two notes: the file,
\* the target, the kind; each with its mirror.
DialogPairs == {p \in (1..3) \X (1..3) \X {"before", "after"} : p[1] < p[2]}

WithMirrors(chosen) ==
  chosen \cup {<<p[2], p[1], inverseType(p[3])>> : p \in chosen}

AllEntries ==
  <<<<1, "before">>, <<1, "after">>, <<2, "before">>, <<2, "after">>,
    <<3, "before">>, <<3, "after">>>>

\* The story-deps of note i in the store that holds the dependencies of S.
storedDeps(S, i) ==
  LET held == SelectSeq(AllEntries, LAMBDA e : <<i, e[1], e[2]>> \in S)
  IN ArrayOf([k \in 1..Len(held) |-> depStr(basename(held[k][1]), held[k][2])])

\* A vault as the dialogs left it: every dependency has its mirror.
InitDeps ==
  \E fm \in DepsNotes :
    \E chosen \in SUBSET DialogPairs :
      /\ nodes = [i \in 1..3 |-> DroppedNode(i)]
      /\ edges = <<>>
      /\ frontmatter =
           [i \in 1..3 |->
              IF storedDeps(WithMirrors(chosen), i) = <<>> THEN fm[i]
              ELSE [deps |-> storedDeps(WithMirrors(chosen), i)] @@ fm[i]]
      /\ WithinStore(frontmatter)
      /\ links = {}
      /\ layoutConfig = DEFAULT_LAYOUT_CONFIG
      /\ layout = NoLayout
      /\ result = NoResult
      /\ pending = <<>>
      /\ log = <<>>
      /\ hooks = NoHooks

\* The rebuild that ends both operations: buildStoryboard on the active
\* canvas.  The layout reads dates and arcs only, so it is the same whether or
\* not the metadata cache has indexed the new story-deps.
RebuildAfter(fm) ==
  LET b == buildStoryboard(nodes, edges, fm, links, layoutConfig)
  IN \E r \in RandomIds :
       /\ nodes' = b.nodes
       /\ edges' = randomId(b.edges, r)
       /\ layout' = IF b.built THEN [computed |-> TRUE, map |-> b.positions] ELSE layout

\* SetDependenciesModal offers every other file of the vault; the user picks
\* one and answers the dialog "Does target happen BEFORE or AFTER file?".
SaveDependency ==
  \E file \in DOMAIN frontmatter :
    \E target \in DOMAIN frontmatter \ {file} :
      \E type \in {"before", "after"} :
        /\ frontmatter' = saveDependency(frontmatter, file, basename(target), type)
        /\ WithinStore(frontmatter')
        /\ RebuildAfter(frontmatter')
        /\ result' = [op |-> "saveDependency", arg |-> 0, val |-> 0]
        /\ log' = <<Notice("Linked")>>
        /\ UNCHANGED <<links, hooks, layoutConfig, pending>>

\* ShowDependenciesModal lists the parsed story-deps of the file; the user
\* clicks the remove button of one.
RemoveDependency ==
  \E sourceFile \in DOMAIN frontmatter :
    \E k \in 1..Len(parseDeps(frontmatter[sourceFile])) :
      LET dep == parseDeps(frontmatter[sourceFile])[k]
      IN /\ frontmatter' = removeDependency(frontmatter, sourceFile, dep)
         /\ RebuildAfter(frontmatter')
         /\ result' = [op |-> "removeDependency", arg |-> 0, val |-> 0]
         /\ log' = <<Notice("Removed dependency")>>
         /\ UNCHANGED <<links, hooks, layoutConfig, pending>>

NextDeps == SaveDependency \/ RemoveDependency \/ RenderInspector

SpecDeps == InitDeps /\ [][NextDeps]_vars

\* ------------------------------------------------------------ claims: dependencies

Holds(file, entry) ==
  \E k \in 1..Len(storyDeps(frontmatter[file])) : storyDeps(frontmatter[file])[k] = entry

DialogAgreesWithWindow ==
  result.op = "renderInspector" =>
    LET scenes == Scenes
        w == result.val
    IN \A k \in 1..Len(InspectedDeps) :
         LET found == findTarget(scenes, InspectedDeps[k])
         IN found # <<>> =>
              /\ InspectedDeps[k].type = "before" =>
                   /\ w.earliestPossible # NoBound
                   /\ compareAbstractDates(w.earliestPossible, found[1].date) >= 0
              /\ InspectedDeps[k].type = "after" =>
                   /\ w.latestPossible # NoBound
                   /\ compareAbstractDates(w.latestPossible, found[1].date) <= 0

\* ------------------------------------------------------------ claims: one moved scene

\* The file nodes that are not where the layout put them.
MovedNodes ==
  {nodes[j].id : j \in {m \in 1..Len(nodes) :
      /\ nodes[m].type = "file"
      /\ Has(layout.map, nodes[m].id)
      /\ \/ nodes[m].x # layout.map[nodes[m].id].x
         \/ nodes[m].y # layout.map[nodes[m].id].y}}

\* calculateSyncChanges proposes nothing on the canvas as the layout left it.
QuietOnLayout ==
  calculateSyncChanges(applyPositions(nodes, layout.map), Scenes, layoutConfig) = <<>>

\* C27: on a canvas that was at the forward layout of scenes for which
\* calculateSyncChanges proposes nothing, and on which then exactly one scene
\* was moved, every proposal of calculateSyncChanges is for the moved scene.
OnlyMovedSceneProposed ==
  (/\ result.op = "calculateSyncChanges"
   /\ layout.computed
   /\ Cardinality(MovedNodes) = 1
   /\ QuietOnLayout)
  => \A k \in 1..Len(result.val) : result.val[k].nodeId \in MovedNodes

\* ------------------------------------------------------------ SpecOrdinal

\* [year, month, day] within the calendar scale the multipliers assume: twelve
\* months of thirty days, over two years.
CalendarDates == {2024, 2025} \X (1..12) \X (1..30)

\* The two dates to flatten are drawn at the start.
InitOrdinal ==
  \E a \in CalendarDates, b \in CalendarDates :
    /\ nodes = <<>>
    /\ edges = <<>>
    /\ frontmatter = <<>>
    /\ links = {}
    /\ layoutConfig = DEFAULT_LAYOUT_CONFIG
    /\ layout = NoLayout
    /\ result = [op |-> "dates", arg |-> [a |-> a, b |-> b], val |-> 0]
    /\ pending = <<>>
    /\ log = <<>>
    /\ hooks = NoHooks

\* dateToOrdinal on both dates, and compareAbstractDates on the pair.
DateToOrdinal ==
  /\ result.op = "dates"
  /\ result' = [op |-> "dateToOrdinal",
                arg |-> result.arg,
                val |-> [compare |-> compareAbstractDates(result.arg.a, result.arg.b),
                         a |-> dateToOrdinal(result.arg.a),
                         b |-> dateToOrdinal(result.arg.b)]]
  /\ UNCHANGED <<nodes, edges, frontmatter, links, hooks, layoutConfig, layout, pending, log>>

NextOrdinal == DateToOrdinal

SpecOrdinal == InitOrdinal /\ [][NextOrdinal]_vars

\* ------------------------------------------------------------ claims: ordinal

\* C28: for 3-segment dates a, b with month in 1..12 and day in 1..30,
\* compare(a, b) < 0 implies dateToOrdinal(a) < dateToOrdinal(b).
OrdinalFollowsCompare ==
  result.op = "dateToOrdinal" =>
    (result.val.compare < 0 => result.val.a < result.val.b)

\* The last day of a year against the first day of the next: the later date
\* has the smaller month and day.
OrdinalFollowsCompareWitness ==
  /\ result.op = "dateToOrdinal"
  /\ result.arg.a = <<2024, 12, 30>>
  /\ result.arg.b = <<2025, 1, 1>>
  /\ result.val.compare < 0
  /\ result.val.a < result.val.b

\* ------------------------------------------------------------ claims: left of the timeline

\* C29: in Absolute mode, when x lies left of every scene (no scene has
\* ordinal <= x / xScale + minOrdinal), the date getDateFromX returns compares
\* strictly earlier than the date of the chronologically first scene.
LeftOfAllIsEarlier ==
  (/\ result.op = "getDateFromX"
   /\ layoutConfig.layoutMode = "absolute"
   /\ Len(Scenes) > 0) =>
    LET scenes == Scenes
        ranks == StableRanks(scenes)
        first == CHOOSE i \in 1..Len(scenes) : \A j \in 1..Len(scenes) : ranks[i] <= ranks[j]
    IN AtOrBeforeTarget(scenes) = {} =>
         compareAbstractDates(result.val, scenes[first].date) < 0

\* ------------------------------------------------------------ canvas hooks

\* around(proto, {method: factory}) of monkey-around replaces proto.method by
\* factory(proto.method): every call puts one more wrapper around the method.
\* wraps counts the wrappers of each method.
around(wraps, method) == [wraps EXCEPT ![method] = @ + 1]

\* tryPatch(): nothing when patched or when no canvas leaf is open; otherwise
\* onDoubleClick, onContextMenu (when the prototype has it) and requestSave
\* are wrapped, and without onContextMenu the window listener is bound once.
tryPatch(h) ==
  IF h.patched THEN h
  ELSE IF ~h.canvasOpen THEN h
  ELSE LET dbl == around(h.wraps, "onDoubleClick")
           ctx == IF h.hasContextMenu THEN around(dbl, "onContextMenu") ELSE dbl
           req == around(ctx, "requestSave")
       IN [h EXCEPT !.wraps = req,
                    !.globalContextMenuBound = @ \/ ~h.hasContextMenu]

\* The body of one requestSave wrapper after next.call: the lazy patch of the
\* node prototype when a node exists, then pollSelection on every inspector.
\* polls counts the pollSelection calls on one open inspector.
requestSaveWrapper(h, anyNode) ==
  LET lazy == IF ~h.patched /\ anyNode
              THEN [h EXCEPT !.wraps = around(@, "showMenu"),
                             !.patched = TRUE,
                             !.leafEvent = FALSE]
              ELSE h
  IN [lazy EXCEPT !.polls = IF h.inspectors > 0 THEN @ + 1 ELSE @]

\* canvas.requestSave() through depth wrappers: each calls the one it wraps
\* first, the innermost the method of Obsidian, and then runs its body.
RECURSIVE callRequestSave(_, _, _)
callRequestSave(h, anyNode, depth) ==
  IF depth = 0 THEN h
  ELSE requestSaveWrapper(callRequestSave(h, anyNode, depth - 1), anyNode)

\* ------------------------------------------------------------ SpecHooks

\* The state registerCanvasHooks leaves: nothing patched, the layout-ready
\* callback and the active-leaf-change handler waiting.  A canvas leaf may be
\* open, with or without a node; up to two inspectors are open.
InitHooks ==
  \E open \in BOOLEAN, ctx \in BOOLEAN, k \in 0..1, n \in 0..2 :
    /\ nodes = [i \in 1..k |-> DroppedNode(i)]
    /\ edges = <<>>
    /\ frontmatter = <<>>
    /\ links = {}
    /\ layoutConfig = DEFAULT_LAYOUT_CONFIG
    /\ layout = NoLayout
    /\ result = NoResult
    /\ pending = <<>>
    /\ log = <<>>
    /\ hooks = [registered |-> TRUE,
                patched |-> FALSE,
                layoutReady |-> FALSE,
                leafEvent |-> TRUE,
                canvasOpen |-> open,
                hasContextMenu |-> ctx,
                globalContextMenuBound |-> FALSE,
                wraps |-> [onDoubleClick |-> 0, onContextMenu |-> 0,
                           requestSave |-> 0, showMenu |-> 0],
                inspectors |-> n,
                polls |-> 0]

\* workspace.onLayoutReady(tryPatch): the callback runs once.
LayoutReady ==
  /\ ~hooks.layoutReady
  /\ hooks' = [tryPatch(hooks) EXCEPT !.layoutReady = TRUE]
  /\ result' = [op |-> "layout-ready", arg |-> 0, val |-> 0]
  /\ UNCHANGED <<nodes, edges, frontmatter, links, layoutConfig, layout, pending, log>>

\* The user activates another leaf, which opens or leaves a canvas; tryPatch
\* runs while the active-leaf-change handler is registered.
ActiveLeafChange ==
  \E open \in BOOLEAN :
    /\ hooks.layoutReady
    /\ hooks.wraps.requestSave < MaxWraps
    /\ LET moved == [hooks EXCEPT !.canvasOpen = open]
       IN hooks' = IF hooks.leafEvent THEN tryPatch(moved) ELSE moved
    /\ result' = [op |-> "active-leaf-change", arg |-> 0, val |-> 0]
    /\ UNCHANGED <<nodes, edges, frontmatter, links, layoutConfig, layout, pending, log>>

\* Obsidian calls canvas.requestSave() on the open canvas after an edit, which
\* may have added the first node.
RequestSave ==
  \E added \in BOOLEAN :
    /\ hooks.canvasOpen
    /\ nodes' = IF added /\ nodes = <<>> THEN <<DroppedNode(1)>> ELSE nodes
    /\ hooks' = callRequestSave([hooks EXCEPT !.polls = 0], nodes' # <<>>,
                                hooks.wraps.requestSave)
    /\ result' = [op |-> "requestSave", arg |-> 0, val |-> 0]
    /\ UNCHANGED <<edges, frontmatter, links, layoutConfig, layout, pending, log>>

NextHooks == LayoutReady \/ ActiveLeafChange \/ RequestSave

SpecHooks == InitHooks /\ [][NextHooks]_vars

\* ------------------------------------------------------------ claims: hooks

\* C30: after registerCanvasHooks, whatever layout-ready, active-leaf-change
\* and requestSave events follow, onDoubleClick, onContextMenu, requestSave
\* and the node showMenu are each wrapped at most once, and one requestSave
\* call makes an open inspector run pollSelection at most once.
HooksInstalledOnce ==
  /\ \A method \in DOMAIN hooks.wraps : hooks.wraps[method] <= 1
  /\ hooks.polls <= 1

====
